---- MODULE Spec2Model ----
(***************************************************************************)
(* A model of jpl.labcas.validation: the finding data model, its           *)
(* persistence in the findings table, the report generator, the heuristic  *)
(* PHI/PII scorer and the scan pipeline (validate_single / validate_pool). *)
(*                                                                         *)
(* Conventions.                                                            *)
(*  - A Python str is a Text: a sequence of chunks (TLA+ strings).  The    *)
(*    empty str is <<>>.  Formatting (f-strings, str.join) is \o.          *)
(*  - An Optional value is None (the empty tuple) or Some(v) (a 1-tuple).  *)
(*  - A score is an integer number of hundredths (80 stands for 0.8).      *)
(*  - A tag is a pair <<group, element>>.                                  *)
(*  - A path is a sequence of segments (the text between the slashes).     *)
(***************************************************************************)
EXTENDS Integers, Sequences, FiniteSets, TLC

VARIABLES
    rt_finding,   \* round trip: the finding handed to _write_finding_to_db
    rt_store,     \* round trip: the rows of the findings table
    rt_loaded,    \* round trip: what _load_findings_from_db returned
    rt_pc         \* round trip: "start", "written", "loaded"

rtVars == <<rt_finding, rt_store, rt_loaded, rt_pc>>

VARIABLES
    rp_findings,  \* report: the in-memory findings list, in accumulation order
    rp_threshold, \* report: the Report's score
    rp_store1,    \* report: a findings table holding rp_findings, same insertion order
    rp_store2,    \* report: a findings table holding them in the opposite order
    csv_list1,    \* report: the artifacts written from rp_findings
    csv_list2,    \* report: the artifacts written from the list in the opposite order
    csv_db1,      \* report: the artifacts written from rp_store1
    csv_db2,      \* report: the artifacts written from rp_store2
    rp_pc         \* report: which step comes next

rpVars == <<rp_findings, rp_threshold, rp_store1, rp_store2,
            csv_list1, csv_list2, csv_db1, csv_db2, rp_pc>>

VARIABLES
    rc_ds,        \* recognizers: the dataset handed to recognize and validate
    rc_findings,  \* recognizers: None, or Some of what the call returned
    rc_raised,    \* recognizers: the exception the call raised, "" for none
    rc_call,      \* recognizers: None, or Some of the arguments and result of a _score call
    rc_pc         \* recognizers: "start", then "scored", "recognized" (simple scoring),
                  \* "accepted", "rejected" or "validated"

rcVars == <<rc_ds, rc_findings, rc_raised, rc_call, rc_pc>>

VARIABLES
    recognizer_name, \* scan: the key of PHI_PII_RECOGNIZERS the run was started with
    validators,      \* scan: the validators of the VALIDATORS registry, in order
    files,           \* scan: what file_generator() yields, in order
    phase,           \* scan: "single", then "pool", then "done"
    single_next,     \* validate_single: index of the next file of its loop
    results,         \* validate_single: the results list
    single_log,      \* validate_single: per file, what _scan_one raised and returned
    coordinator,     \* validate_pool: where the parent process is
    database,        \* validate_pool: "none", "file" (created, no table), "ready", "removed"
    task,            \* validate_pool: per file, the state of its future
    future_result,   \* validate_pool: per file, the count its future holds
    pool_log,        \* validate_pool: per file, what _scan_one raised in the worker
    collected,       \* validate_pool: the files whose future as_completed has yielded
    total_findings,  \* validate_pool: the running sum of the counts
    worker,          \* validate_pool: per worker, its task, position, transaction, lock
    findings_table,  \* validate_pool: the committed rows of the findings table
    interrupted,     \* validate_pool: whether the parent got a KeyboardInterrupt
    store_failed     \* validate_pool: whether SQLite refused an insert or a commit

scanInputs == <<recognizer_name, validators, files>>
singleVars == <<single_next, results, single_log>>
poolVars == <<coordinator, database, task, future_result, pool_log, collected,
              total_findings, worker, findings_table, interrupted, store_failed>>
scanVars == <<scanInputs, phase, singleVars, poolVars>>

VARIABLES
    rv_validator, \* regex validators: the validator class validate is called on
    rv_elem,      \* regex validators: None, or Some of the value of the element of the tag
    rv_outcome,   \* regex validators: None, or Some of what validate returned or raised
    rv_pc         \* regex validators: "start", "validated"

rvVars == <<rv_validator, rv_elem, rv_outcome, rv_pc>>

VARIABLES
    dc_tree,      \* discovery: the files under the root, each a path relative to it
    dc_walk,      \* discovery: the directories os.walk has still to visit, next first
    dc_dir,       \* discovery: the directory os.walk is in
    dc_files,     \* discovery: the files of dc_dir the inner loop has still to look at
    dc_yielded    \* discovery: the PotentialFiles handed out so far

dcVars == <<dc_tree, dc_walk, dc_dir, dc_files, dc_yielded>>

VARIABLES
    pf_call,      \* PotentialFile: None, or Some of the arguments of the constructor call
    pf_file       \* PotentialFile: None, or Some of the object constructed

pfVars == <<pf_call, pf_file>>

VARIABLES
    mn_args,      \* main: the parsed arguments url, findings_db, directory, concurrency
    mn_target,    \* main: what the file system holds at the directory argument
    mn_pc,        \* main: "start", "check", "scan", "report", "exit"
    mn_checked,   \* main: "" before check_directory, then "returned" or "DirectoryError"
    mn_exit,      \* main: "" while main runs, then the exception that ended it
    mn_scanned,   \* main: how many _scan_one calls were made
    mn_store,     \* main: whether validate_pool created its findings database
    mn_report     \* main: whether report.generate_report was called

mnVars == <<mn_args, mn_target, mn_pc, mn_checked, mn_exit, mn_scanned, mn_store, mn_report>>

VARIABLES
    ud_value,    \* UID rule: the text value of the element
    ud_tested,   \* UID rule: None, or Some of the text given to _match_pattern
    ud_outcome   \* UID rule: "", then "skipped", "accepted" or "finding"

udVars == <<ud_value, ud_tested, ud_outcome>>

VARIABLES
    tw_ds,      \* tag walker: the dataset, a sequence of elements in tag order
    tw_first,   \* tag walker: None, or Some of the tuples of the first run
    tw_second   \* tag walker: None, or Some of the tuples of the second run

twVars == <<tw_ds, tw_first, tw_second>>

VARIABLES
    sb_disk,   \* the files on the disk, by name
    sb_memo,   \* SpacingBetweenSlicesValidator.series_instance_uids of the process
    sb_calls,  \* the validate calls the process has made
    sb_last    \* the last validate call and its outcome

sbVars == <<sb_disk, sb_memo, sb_calls, sb_last>>

VARIABLES
    fr_arr,       \* ds.pixel_array of the file
    fr_frames,    \* what _extract_frames returned
    fr_findings   \* what _recognize_pixels returned

frVars == <<fr_arr, fr_frames, fr_findings>>

VARIABLES
    am_file,      \* the Modality, (0018,1310) and (0018,0080) of the file
    am_argument,  \* what validate was given
    am_outcome    \* what AcquisitionMatrixValidator.validate gave

amVars == <<am_file, am_argument, am_outcome>>

VARIABLES
    rn_findings,  \* the findings argument of Report, None when not given
    rn_db_path,   \* the db_path argument of Report, None when not given
    rn_outcome    \* how Report.__init__ ended

rnVars == <<rn_findings, rn_db_path, rn_outcome>>

\* The parts added after the first four.
extraVars == <<rvVars, dcVars, pfVars, mnVars, udVars, twVars, sbVars, frVars, amVars, rnVars>>

vars == <<rtVars, rpVars, rcVars, scanVars, extraVars>>
\* What the steps of one part leave alone.
notRt == <<rpVars, rcVars, scanVars, extraVars>>
notRp == <<rtVars, rcVars, scanVars, extraVars>>
notRc == <<rtVars, rpVars, scanVars, extraVars>>
notScan == <<rtVars, rpVars, rcVars, extraVars>>
firstVars == <<rtVars, rpVars, rcVars, scanVars>>
notRv == <<firstVars, dcVars, pfVars, mnVars, udVars, twVars, sbVars, frVars, amVars, rnVars>>
notDc == <<firstVars, rvVars, pfVars, mnVars, udVars, twVars, sbVars, frVars, amVars, rnVars>>
notPf == <<firstVars, rvVars, dcVars, mnVars, udVars, twVars, sbVars, frVars, amVars, rnVars>>
notMn == <<firstVars, rvVars, dcVars, pfVars, udVars, twVars, sbVars, frVars, amVars, rnVars>>
notUd == <<firstVars, rvVars, dcVars, pfVars, mnVars, twVars, sbVars, frVars, amVars, rnVars>>
notTw == <<firstVars, rvVars, dcVars, pfVars, mnVars, udVars, sbVars, frVars, amVars, rnVars>>
notSb == <<firstVars, rvVars, dcVars, pfVars, mnVars, udVars, twVars, frVars, amVars, rnVars>>
notFr == <<firstVars, rvVars, dcVars, pfVars, mnVars, udVars, twVars, sbVars, amVars, rnVars>>
notAm == <<firstVars, rvVars, dcVars, pfVars, mnVars, udVars, twVars, sbVars, frVars, rnVars>>
notRn == <<firstVars, rvVars, dcVars, pfVars, mnVars, udVars, twVars, sbVars, frVars, amVars>>

(***************************************************************************)
(* Optional values, truthiness, text                                       *)
(***************************************************************************)
None == <<>>
Some(v) == <<v>>
Val(o) == o[1]

\* Python truthiness of an Optional[str]: None and '' are falsy.
TruthyText(o) == o # None /\ Val(o) # <<>>
\* Python truthiness of an Optional[int]: None and 0 are falsy.
TruthyInt(o) == o # None /\ Val(o) # 0
\* pydicom's Tag is an int subclass (group << 16 | element): Tag(0, 0) is falsy.
TagAsInt(tag) == tag[1] * 65536 + tag[2]
TruthyTag(o) == o # None /\ TagAsInt(Val(o)) # 0

Digits == <<"0", "1", "2", "3", "4", "5", "6", "7", "8", "9">>

RECURSIVE IntText(_)
\* str(n) of an int: a minus sign and the decimal digits, one chunk each.
IntText(n) ==
    IF n < 0 THEN <<"-">> \o IntText(0 - n)
    ELSE IF n < 10 THEN <<Digits[n + 1]>>
    ELSE IntText(n \div 10) \o <<Digits[(n % 10) + 1]>>

IsDigit(c) == \E i \in 1..10 : Digits[i] = c
DigitValue(c) == (CHOOSE i \in 1..10 : Digits[i] = c) - 1

RECURSIVE ParseDigits(_, _)
ParseDigits(t, acc) ==
    IF t = <<>> THEN acc ELSE ParseDigits(Tail(t), acc * 10 + DigitValue(Head(t)))

\* int(s) for a str of decimal digits; anything else raises ValueError.
IntParses(t) == t # <<>> /\ \A i \in 1..Len(t) : IsDigit(t[i])
ParseInt(t) == ParseDigits(t, 0)

RECURSIVE SplitAcc(_, _, _)
SplitAcc(t, sep, cur) ==
    IF t = <<>> THEN <<cur>>
    ELSE IF Head(t) = sep THEN <<cur>> \o SplitAcc(Tail(t), sep, <<>>)
    ELSE SplitAcc(Tail(t), sep, Append(cur, Head(t)))

\* s.split(sep) for a one-character separator.
Split(t, sep) == SplitAcc(t, sep, <<>>)

RECURSIVE Join(_, _)
\* sep.join(parts)
Join(parts, sep) ==
    IF parts = <<>> THEN <<>>
    ELSE IF Len(parts) = 1 THEN parts[1]
    ELSE parts[1] \o sep \o Join(Tail(parts), sep)

\* f'{score:.2f}' of a score in hundredths.
ScoreText(s) ==
    IntText(s \div 100) \o <<".">> \o <<Digits[((s % 100) \div 10) + 1], Digits[(s % 10) + 1]>>

(***************************************************************************)
(* File descriptors                                                        *)
(***************************************************************************)
\* The segments that are seven decimal digits (\d{7}) among those the model uses.
SevenDigitSegments == {"1234567", "7654321"}

SubSeqFrom(s, i) == SubSeq(s, i, Len(s))

\* A search that takes a seven digit segment with nothing after it.
OrgMatchesWithoutRest(path) ==
    {k \in 1..Len(path) :
        /\ k + 1 <= Len(path)
        /\ path[k] # ""
        /\ path[k + 1] \in SevenDigitSegments}

\* _organization_re.search(path): the leftmost k such that segment k is not
\* empty, segment k+1 is seven digits and something follows it.
OrgMatches(path) ==
    {k \in 1..Len(path) :
        /\ k + 2 <= Len(path)
        /\ path[k] # ""
        /\ path[k + 1] \in SevenDigitSegments
        /\ \E j \in (k + 2)..Len(path) : path[j] # ""}

Min(S) == CHOOSE x \in S : \A y \in S : x <= y

\* PotentialFile(path, site_id, event_id); site_id and event_id are Optional Texts.
PotentialFile(path, site_id, event_id) ==
    LET m == OrgMatches(path)
        k == Min(m)
        derived ==
            IF m # {}
            THEN [site_id |-> <<path[k]>>, event_id |-> <<path[k + 1]>>,
                  file_name |-> SubSeqFrom(path, k + 2)]
            ELSE [site_id |-> <<"unknown site">>, event_id |-> <<"unknown event">>,
                  file_name |-> IF path = <<>> THEN <<>> ELSE <<path[Len(path)]>>]
    IN  [type |-> "PotentialFile",
         path |-> path,
         site_id |-> IF TruthyText(site_id) THEN Val(site_id) ELSE derived.site_id,
         event_id |-> IF TruthyText(event_id) THEN Val(event_id) ELSE derived.event_id,
         file_name |-> derived.file_name]

\* What the recognizers put in a finding's file field: ds.filename, a plain str.
FileNameStr(path) == [type |-> "str", text |-> path]

IsPotentialFile(file) == file.type = "PotentialFile"

(***************************************************************************)
(* Findings                                                                *)
(***************************************************************************)
ErrorFinding(file, value, score, error_message) ==
    [cls |-> "ErrorFinding", file |-> file, value |-> value, score |-> score,
     error_message |-> error_message]

ValidationFinding(file, value, score, tag, description) ==
    [cls |-> "ValidationFinding", file |-> file, value |-> value, score |-> score,
     tag |-> tag, description |-> description]

HeaderFinding(file, value, score, tag, description) ==
    [cls |-> "HeaderFinding", file |-> file, value |-> value, score |-> score,
     tag |-> tag, description |-> description]

ImageFinding(file, value, score, pattern, index) ==
    [cls |-> "ImageFinding", file |-> file, value |-> value, score |-> score,
     pattern |-> pattern, index |-> index]

\* The Warning variant: same payload as a Validation finding, its own kind label.
WarningFinding(file, value, score, tag, description) ==
    [cls |-> "WarningFinding", file |-> file, value |-> value, score |-> score,
     tag |-> tag, description |-> description]

\* The kind labels (the source's labels start with an emoji, left out here; the
\* code point of that first character is KindCodePoint below).
KindError == <<"Error">>
KindValidation == <<"Missing Required Tags">>
KindHeader == <<"Possible PHI/PII in Header">>
KindImage == <<"Possible Burned-in PHI/PII (Pixels)">>
KindWarning == <<"Warning">>
WarningFinding_kind == KindWarning
KindUnknown == <<"Unknown">>

\* finding.kind()
kind(f) ==
    CASE f.cls = "ErrorFinding" -> KindError
      [] f.cls = "ValidationFinding" -> KindValidation
      [] f.cls = "HeaderFinding" -> KindHeader
      [] f.cls = "ImageFinding" -> KindImage
      [] f.cls = "WarningFinding" -> WarningFinding_kind

\* datadict.keyword_for_tag(tag): the keyword of the DICOM dictionary, '' for a
\* tag the dictionary does not hold.
keyword_for_tag(tag) ==
    CASE tag = <<8, 5>> -> <<"SpecificCharacterSet">>
      [] tag = <<8, 8>> -> <<"ImageType">>
      [] tag = <<8, 96>> -> <<"Modality">>
      [] tag = <<8, 112>> -> <<"Manufacturer">>
      [] tag = <<8, 128>> -> <<"InstitutionName">>
      [] tag = <<8, 144>> -> <<"ReferringPhysicianName">>
      [] tag = <<8, 4158>> -> <<"SeriesDescription">>
      [] tag = <<16, 16>> -> <<"PatientName">>
      [] tag = <<16, 32>> -> <<"PatientID">>
      [] tag = <<50, 4146>> -> <<"RequestingPhysician">>
      [] tag = <<32736, 16>> -> <<"PixelData">>
      [] OTHER -> <<>>
\* str(tag)
TagText(tag) == <<"(">> \o IntText(tag[1]) \o <<":">> \o IntText(tag[2]) \o <<")">>
\* f'{tag} ({keyword_for_tag(tag)})'
TagWithKeyword(tag) == TagText(tag) \o <<" (">> \o keyword_for_tag(tag) \o <<")">>

ValidationDetail(description) ==
    IF TruthyText(description)
    THEN <<"Failed core tag validation: ">> \o Val(description)
            \o <<" - please review for completeness and format">>
    ELSE <<"Failed core tag validation - please review for completeness and format">>

HeaderDetail(score, description) ==
    IF TruthyText(description)
    THEN <<"Possible PHI/PII detection (score ">> \o ScoreText(score) \o <<"): ">>
            \o Val(description)
    ELSE <<"Possible PHI/PII detection (score ">> \o ScoreText(score) \o <<")">>

Quoted(value) == <<"<<">> \o value \o <<">>">>

ImageDetail(pattern, index) ==
    <<"Detected with pattern ">> \o pattern \o <<" at frame index ">> \o IntText(index)

\* The display fields of a Warning finding: its tag, value and description.
WarningFinding_report(f) ==
    <<Some(IF TruthyTag(f.tag) THEN TagWithKeyword(Val(f.tag)) ELSE <<"unknown tag">>),
      Some(f.value), f.description>>

\* finding.report(): the ordered display fields, each an Optional Text (an
\* ErrorFinding without a message reports None as its second field).
report(f) ==
    CASE f.cls = "ErrorFinding" -> <<Some(f.value), f.error_message>>
      [] f.cls = "ValidationFinding" ->
            <<Some(IF TruthyTag(f.tag)
                   THEN TagWithKeyword(Val(f.tag))
                   ELSE (IF f.tag = None THEN <<"None">> ELSE TagText(Val(f.tag)))
                            \o <<" (unknown tag)">>),
              Some(Quoted(f.value)),
              Some(ValidationDetail(f.description))>>
      [] f.cls = "HeaderFinding" ->
            <<Some(IF TruthyTag(f.tag) THEN TagWithKeyword(Val(f.tag)) ELSE <<"unknown tag">>),
              Some(Quoted(f.value)),
              Some(HeaderDetail(f.score, f.description))>>
      [] f.cls = "ImageFinding" ->
            <<Some(f.value), Some(ImageDetail(f.pattern, f.index))>>
      [] f.cls = "WarningFinding" -> WarningFinding_report(f)

\* The persistence slots of a Warning finding: discriminator, description, tag.
WarningFinding_database_fields(f) ==
    [finding_type |-> f.cls, description |-> f.description,
     pattern |-> None, index |-> None, tag |-> f.tag]

\* finding.generate_database_fields(): (finding_type, description, pattern, index, tag)
generate_database_fields(f) ==
    CASE f.cls = "ErrorFinding" ->
            [finding_type |-> f.cls, description |-> f.error_message,
             pattern |-> None, index |-> None, tag |-> None]
      [] f.cls \in {"ValidationFinding", "HeaderFinding"} ->
            [finding_type |-> f.cls, description |-> f.description,
             pattern |-> None, index |-> None, tag |-> f.tag]
      [] f.cls = "WarningFinding" -> WarningFinding_database_fields(f)
      [] f.cls = "ImageFinding" ->
            [finding_type |-> f.cls, description |-> None,
             pattern |-> Some(f.pattern), index |-> Some(f.index), tag |-> None]

(***************************************************************************)
(* The findings table                                                      *)
(***************************************************************************)
\* f'{tag_obj.group},{tag_obj.element}'
FormatTag(tag) == IntText(tag[1]) \o <<",">> \o IntText(tag[2])

\* finding.file.path and its siblings exist only on a PotentialFile; reading
\* them from a str raises AttributeError.
WriteRaises(f) == ~IsPotentialFile(f.file)

\* _write_finding_to_db: the row it inserts (the id column is the position of
\* the row in the table).
_write_finding_to_db(f) ==
    LET db == generate_database_fields(f)
    IN  [file_path |-> f.file.path,
         site_id |-> f.file.site_id,
         event_id |-> f.file.event_id,
         file_name |-> f.file.file_name,
         finding_type |-> db.finding_type,
         value |-> f.value,
         score |-> f.score,
         tag |-> IF TruthyTag(db.tag) THEN Some(FormatTag(Val(db.tag))) ELSE None,
         description |-> db.description,
         pattern |-> db.pattern,
         index_val |-> db.index]

\* The tag column parsed back: "group,element" -> Tag((group, element)), None
\* when the column is empty, has not two parts or a part is not an int.
ParseTag(tag) ==
    IF ~TruthyText(tag) THEN None
    ELSE LET parts == Split(Val(tag), ",")
         IN  IF Len(parts) = 2 /\ IntParses(parts[1]) /\ IntParses(parts[2])
             THEN Some(<<ParseInt(parts[1]), ParseInt(parts[2])>>)
             ELSE None

KnownFindingTypes == {"ErrorFinding", "ValidationFinding", "HeaderFinding", "ImageFinding"}

\* pattern or 'unknown'
PatternOrUnknown(pattern) == IF TruthyText(pattern) THEN Val(pattern) ELSE <<"unknown">>
\* index_val or -1
IndexOrMinusOne(index_val) == IF TruthyInt(index_val) THEN Val(index_val) ELSE -1

\* The Finding _load_findings_from_db reconstructs from one row of a known type.
LoadRow(row) ==
    LET potential_file == PotentialFile(row.file_path, Some(row.site_id), Some(row.event_id))
        tag_obj == ParseTag(row.tag)
    IN  CASE row.finding_type = "ErrorFinding" ->
                ErrorFinding(potential_file, row.value, row.score, row.description)
          [] row.finding_type = "ValidationFinding" ->
                ValidationFinding(potential_file, row.value, row.score, tag_obj, row.description)
          [] row.finding_type = "HeaderFinding" ->
                HeaderFinding(potential_file, row.value, row.score, tag_obj, row.description)
          [] row.finding_type = "ImageFinding" ->
                ImageFinding(potential_file, row.value, row.score,
                             PatternOrUnknown(row.pattern), IndexOrMinusOne(row.index_val))

RECURSIVE _load_findings_from_db(_)
\* _load_findings_from_db: every row in table order, rows of unknown type skipped.
_load_findings_from_db(rows) ==
    IF rows = <<>> THEN <<>>
    ELSE IF Head(rows).finding_type \in KnownFindingTypes
         THEN <<LoadRow(Head(rows))>> \o _load_findings_from_db(Tail(rows))
         ELSE _load_findings_from_db(Tail(rows))

(***************************************************************************)
(* Round trip of one finding through the findings table                    *)
(***************************************************************************)
TagModality == <<8, 96>>       \* (0008,0060)
TagPatientName == <<16, 16>>   \* (0010,0010)

RtPaths ==
    {<<"CollX", "Images_Site_AB12", "1234567", "sub", "scan.dcm">>,
     <<"tmp", "scan.dcm">>}
RtFiles == {PotentialFile(p, None, None) : p \in RtPaths}
RtDescriptions == {None, Some(<<>>), Some(<<"details">>)}
RtTags == {None, Some(TagModality), Some(TagPatientName)}
RtIndexes == {-1, 0, 1, 3}
RtPatterns == {<<"unknown">>, <<"EMAIL">>}
RtScores == {10, 80, 100}

RtFindings ==
    {ErrorFinding(file, <<"Unexpected exception extracting pixel frames">>, 100, m) :
        file \in RtFiles, m \in RtDescriptions}
    \cup {ValidationFinding(file, <<"tag missing">>, 100, t, d) :
        file \in RtFiles, t \in RtTags, d \in RtDescriptions}
    \cup {HeaderFinding(file, <<"Jane Doe">>, s, t, d) :
        file \in RtFiles, s \in RtScores, t \in RtTags, d \in RtDescriptions}
    \cup {ImageFinding(file, <<"text excerpt">>, 80, p, i) :
        file \in RtFiles, p \in RtPatterns, i \in RtIndexes}
    \cup {WarningFinding(file, <<"mr">>, 100, t, d) :
        file \in RtFiles, t \in RtTags, d \in RtDescriptions}

RtIdle ==
    /\ rt_finding = None
    /\ rt_store = <<>>
    /\ rt_loaded = <<>>
    /\ rt_pc = "off"

RpIdle ==
    /\ rp_findings = <<>>
    /\ rp_threshold = 0
    /\ rp_store1 = <<>>
    /\ rp_store2 = <<>>
    /\ csv_list1 = None
    /\ csv_list2 = None
    /\ csv_db1 = None
    /\ csv_db2 = None
    /\ rp_pc = "off"

RcIdle ==
    /\ rc_ds = None
    /\ rc_findings = None
    /\ rc_raised = ""
    /\ rc_call = None
    /\ rc_pc = "off"

ScanIdle ==
    /\ recognizer_name = ""
    /\ validators = <<>>
    /\ files = <<>>
    /\ phase = "off"
    /\ single_next = 0
    /\ results = <<>>
    /\ single_log = <<>>
    /\ coordinator = "off"
    /\ database = "none"
    /\ task = <<>>
    /\ future_result = <<>>
    /\ pool_log = <<>>
    /\ collected = {}
    /\ total_findings = 0
    /\ worker = <<>>
    /\ findings_table = <<>>
    /\ interrupted = FALSE
    /\ store_failed = FALSE

RvIdle ==
    /\ rv_validator = ""
    /\ rv_elem = None
    /\ rv_outcome = None
    /\ rv_pc = "off"

DcIdle ==
    /\ dc_tree = {}
    /\ dc_walk = <<>>
    /\ dc_dir = <<>>
    /\ dc_files = {}
    /\ dc_yielded = <<>>
PfIdle ==
    /\ pf_call = None
    /\ pf_file = None
MnIdle ==
    /\ mn_args = None
    /\ mn_target = None
    /\ mn_pc = "off"
    /\ mn_checked = ""
    /\ mn_exit = ""
    /\ mn_scanned = 0
    /\ mn_store = FALSE
    /\ mn_report = FALSE
UdIdle ==
    /\ ud_value = <<>>
    /\ ud_tested = None
    /\ ud_outcome = ""
TwIdle ==
    /\ tw_ds = <<>>
    /\ tw_first = None
    /\ tw_second = None
SbIdle ==
    /\ sb_disk = <<>>
    /\ sb_memo = {}
    /\ sb_calls = 0
    /\ sb_last = <<>>
FrIdle ==
    /\ fr_arr = <<>>
    /\ fr_frames = None
    /\ fr_findings = None
AmIdle ==
    /\ am_file = <<>>
    /\ am_argument = ""
    /\ am_outcome = None
RnIdle ==
    /\ rn_findings = None
    /\ rn_db_path = None
    /\ rn_outcome = ""
ExtraIdle == RvIdle /\ DcIdle /\ PfIdle /\ MnIdle /\ UdIdle /\ TwIdle /\ SbIdle /\ FrIdle /\ AmIdle /\ RnIdle
FirstIdle == RtIdle /\ RpIdle /\ RcIdle /\ ScanIdle

RtInit ==
    /\ ExtraIdle
    /\ RcIdle
    /\ ScanIdle
    /\ rt_finding \in RtFindings
    /\ rt_store = <<>>
    /\ rt_loaded = <<>>
    /\ rt_pc = "start"
    /\ RpIdle

\* A worker persists the finding (insert and commit).
RtWrite ==
    /\ rt_pc = "start"
    /\ ~WriteRaises(rt_finding)
    /\ rt_store' = Append(rt_store, _write_finding_to_db(rt_finding))
    /\ rt_pc' = "written"
    /\ UNCHANGED <<rt_finding, rt_loaded, notRt>>

\* The findings are loaded back from the table.
RtLoad ==
    /\ rt_pc = "written"
    /\ rt_loaded' = _load_findings_from_db(rt_store)
    /\ rt_pc' = "loaded"
    /\ UNCHANGED <<rt_finding, rt_store, notRt>>

RtNext == RtWrite \/ RtLoad

SpecRoundTrip == RtInit /\ [][RtNext]_vars

\* C2: a finding persisted with _write_finding_to_db and reconstructed with
\* _load_findings_from_db comes back as one finding with the same kind() label
\* and the same ordered report() display fields, for every variant and value.
C2_RoundTrip ==
    rt_pc = "loaded" =>
        /\ Len(rt_loaded) = 1
        /\ kind(rt_loaded[1]) = kind(rt_finding)
        /\ report(rt_loaded[1]) = report(rt_finding)

(***************************************************************************)
(* Report.generate_csv_report                                              *)
(***************************************************************************)
\* Code point of the first character of each kind label, which decides how
\* Python orders the labels.
KindCodePoint(k) ==
    CASE k = KindValidation -> 9888      \* U+26A0
      [] k = KindError -> 10060          \* U+274C
      [] k = KindUnknown -> 10067        \* U+2753
      [] k = KindWarning -> 128110       \* U+1F46E
      [] k = KindImage -> 128444         \* U+1F5BC
      [] k = KindHeader -> 128584        \* U+1F648

\* The finding_type strings in Python's (and SQLite's BINARY) order.
FindingTypesInOrder ==
    <<"ErrorFinding", "HeaderFinding", "ImageFinding", "ValidationFinding", "WarningFinding">>
FindingTypeRank(t) == CHOOSE i \in 1..Len(FindingTypesInOrder) : FindingTypesInOrder[i] = t

\* The path segments the model uses, in Python's str order.  No segment is a
\* prefix of another, so comparing paths segment by segment is comparing the
\* strings.
SegmentsInOrder ==
    <<"1234567", "7654321", "CollX", "Images_Site_AB12", "SiteA", "SiteB",
      "a.dcm", "b.dcm", "c.dcm", "d.dcm", "scan.dcm", "sub", "tmp">>
SegmentRank(seg) == CHOOSE i \in 1..Len(SegmentsInOrder) : SegmentsInOrder[i] = seg

RECURSIVE PathLess(_, _)
PathLess(p, q) ==
    IF q = <<>> THEN FALSE
    ELSE IF p = <<>> THEN TRUE
    ELSE IF Head(p) = Head(q) THEN PathLess(Tail(p), Tail(q))
    ELSE SegmentRank(Head(p)) < SegmentRank(Head(q))

RECURSIVE SortByRank(_, _)
\* sorted(S) for a set whose order is given by the rank function r.
SortByRank(S, r) ==
    IF S = {} THEN <<>>
    ELSE LET x == CHOOSE y \in S : \A z \in S : r[y] <= r[z]
         IN  <<x>> \o SortByRank(S \ {x}, r)

SortPaths(S) == SortByRank(S, [p \in S |-> Cardinality({q \in S : PathLess(q, p)})])
SortKinds(S) == SortByRank(S, [k \in S |-> KindCodePoint(k)])
SortFindingTypes(S) == SortByRank(S, [t \in S |-> FindingTypeRank(t)])

RECURSIVE InsertByScoreDesc(_, _)
InsertByScoreDesc(sorted, x) ==
    IF sorted = <<>> THEN <<x>>
    ELSE IF Head(sorted).score >= x.score
         THEN <<Head(sorted)>> \o InsertByScoreDesc(Tail(sorted), x)
         ELSE <<x>> \o sorted

RECURSIVE SortByScoreDesc(_)
\* sorted(items, key=score, reverse=True): stable, equal scores keep their order.
SortByScoreDesc(items) ==
    IF items = <<>> THEN <<>>
    ELSE InsertByScoreDesc(SortByScoreDesc(SubSeq(items, 1, Len(items) - 1)),
                           items[Len(items)])

RECURSIVE Reverse(_)
Reverse(items) == IF items = <<>> THEN <<>> ELSE Append(Reverse(Tail(items)), Head(items))

RECURSIVE Flatten(_)
Flatten(seqs) == IF seqs = <<>> THEN <<>> ELSE Head(seqs) \o Flatten(Tail(seqs))

Range(items) == {items[i] : i \in 1..Len(items)}
Map(items, Op(_)) == [i \in 1..Len(items) |-> Op(items[i])]

\* str(path): the segments joined by slashes.  os.path.basename: the last one.
PathText(path) == Join([i \in 1..Len(path) |-> <<path[i]>>], <<"/">>)
basename(path) == IF path = <<>> THEN <<>> ELSE <<path[Len(path)]>>

\* finding.organization_parts(): (site_id, event_id, path)
organization_parts(f) == <<f.file.site_id, f.file.event_id, f.file.path>>

\* A filter that drops the findings sitting exactly on the threshold.
ScoreFilterStrict(score, threshold) == score > threshold
\* f.score >= self.score, the filter of the in-memory branch
ScoreFilterList(score, threshold) == score >= threshold
\* WHERE score >= ?, the filter of both queries of the database branch
ScoreFilterSql(score, threshold) == score >= threshold

\* One CSV row.
CsvRow(site_id, event_id, file_name, score, knd, details) ==
    [site_id |-> site_id, event_id |-> event_id, file_name |-> file_name,
     score |-> score, kind |-> knd, details |-> details]

\* ", ".join(finding.report()) raises TypeError on a None field.
DetailsText(parts) == Join(Map(parts, Val), <<", ">>)

\* The in-memory branch of generate_csv_report: one artifact per (site_id,
\* event_id) of _organize_report, files sorted, kinds sorted by label, the
\* findings at or above the threshold sorted by score, descending.
GenerateFromList(findings, threshold) ==
    LET groups == {<<organization_parts(f)[1], organization_parts(f)[2]>> : f \in Range(findings)}
        RowsOfKind(in_file, k) ==
            LET scored == SortByScoreDesc(
                    SelectSeq(in_file, LAMBDA f : ScoreFilterList(f.score, threshold) /\ kind(f) = k))
            IN  [i \in 1..Len(scored) |->
                    CsvRow(scored[i].file.site_id, scored[i].file.event_id,
                           PathText(organization_parts(scored[i])[3]),
                           scored[i].score, k, DetailsText(report(scored[i])))]
        RowsOfFile(g, path) ==
            LET in_file == SelectSeq(findings, LAMBDA f : organization_parts(f) = <<g[1], g[2], path>>)
                kinds == SortKinds({kind(f) : f \in Range(in_file)})
            IN  Flatten([i \in 1..Len(kinds) |-> RowsOfKind(in_file, kinds[i])])
        RowsOfGroup(g) ==
            LET paths == SortPaths({organization_parts(f)[3] :
                            f \in {x \in Range(findings) :
                                      organization_parts(x)[1] = g[1] /\ organization_parts(x)[2] = g[2]}})
            IN  Flatten([i \in 1..Len(paths) |-> RowsOfFile(g, paths[i])])
    IN  {[site_id |-> g[1], event_id |-> g[2], rows |-> RowsOfGroup(g)] : g \in groups}

\* _organize_report raises on an empty list, organization_parts on a finding
\* whose file is no PotentialFile, str.join on a None display field.
GenerateFromListRaises(findings, threshold) ==
    \/ findings = <<>>
    \/ \E f \in Range(findings) : ~IsPotentialFile(f.file)
    \/ \E f \in Range(findings) :
            /\ ScoreFilterList(f.score, threshold)
            /\ \E i \in 1..Len(report(f)) : report(f)[i] = None

\* Report._get_finding_kind
_get_finding_kind(finding_type) ==
    CASE finding_type = "ErrorFinding" -> KindError
      [] finding_type = "ValidationFinding" -> KindValidation
      [] finding_type = "HeaderFinding" -> KindHeader
      [] finding_type = "ImageFinding" -> KindImage
      [] OTHER -> KindUnknown

\* Report._format_finding_tag
_format_finding_tag(finding_type, tag) ==
    IF finding_type \in {"ValidationFinding", "HeaderFinding"} /\ ParseTag(tag) # None
    THEN TagWithKeyword(Val(ParseTag(tag)))
    ELSE <<"unknown tag">>

\* Report._format_finding_report: the display fields of one row of the table.
_format_finding_report(row) ==
    CASE row.finding_type = "ErrorFinding" ->
            <<row.value, IF TruthyText(row.description) THEN Val(row.description) ELSE <<>> >>
      [] row.finding_type = "ValidationFinding" ->
            <<_format_finding_tag(row.finding_type, row.tag), Quoted(row.value),
              ValidationDetail(row.description)>>
      [] row.finding_type = "HeaderFinding" ->
            <<_format_finding_tag(row.finding_type, row.tag), Quoted(row.value),
              HeaderDetail(row.score, row.description)>>
      [] row.finding_type = "ImageFinding" ->
            <<row.value, ImageDetail(PatternOrUnknown(row.pattern), IndexOrMinusOne(row.index_val))>>
      [] OTHER -> <<row.value>>

\* ORDER BY leaves the order of rows with equal keys to SQLite.
SqlTieOrders == {"rowid ascending", "rowid descending"}

\* The database branch of generate_csv_report: per site_id with a row at or
\* above the threshold, the rows at or above it ordered by event_id, file_path,
\* finding_type and score; one artifact per event_id, files sorted, finding
\* types sorted by name, each type's rows sorted by score, descending.
GenerateFromDb(table, threshold, tie) ==
    LET selected == SelectSeq(table, LAMBDA r : ScoreFilterSql(r.score, threshold))
        scan == IF tie = "rowid ascending" THEN selected ELSE Reverse(selected)
        groups == {<<r.site_id, r.event_id>> : r \in Range(selected)}
        RowsOfType(g, path, t) ==
            LET findings_list == SortByScoreDesc(
                    SelectSeq(scan, LAMBDA r : /\ r.site_id = g[1] /\ r.event_id = g[2]
                                               /\ r.file_path = path /\ r.finding_type = t))
            IN  [i \in 1..Len(findings_list) |->
                    CsvRow(g[1], g[2], basename(path), findings_list[i].score,
                           _get_finding_kind(t),
                           Join(_format_finding_report(findings_list[i]), <<", ">>))]
        RowsOfFile(g, path) ==
            LET kinds == SortFindingTypes({r.finding_type :
                            r \in {x \in Range(selected) :
                                      /\ x.site_id = g[1] /\ x.event_id = g[2]
                                      /\ x.file_path = path}})
            IN  Flatten([i \in 1..Len(kinds) |-> RowsOfType(g, path, kinds[i])])
        RowsOfGroup(g) ==
            LET paths == SortPaths({r.file_path :
                            r \in {x \in Range(selected) : x.site_id = g[1] /\ x.event_id = g[2]}})
            IN  Flatten([i \in 1..Len(paths) |-> RowsOfFile(g, paths[i])])
    IN  {[site_id |-> g[1], event_id |-> g[2], rows |-> RowsOfGroup(g)] : g \in groups}

(***************************************************************************)
(* Reports from a findings list and from a findings table                  *)
(***************************************************************************)
MaxFindings == 3

FileA == PotentialFile(<<"CollX", "SiteA", "1234567", "a.dcm">>, None, None)
FileB == PotentialFile(<<"CollX", "SiteA", "1234567", "b.dcm">>, None, None)
FileC == PotentialFile(<<"CollX", "SiteB", "7654321", "c.dcm">>, None, None)

\* Findings as the validators build them, as the scan loads them back from the
\* table, and as the image scan reports frame 0.
RpPool ==
    {ValidationFinding(FileA, <<"tag missing">>, 100, Some(TagModality), None),
     ValidationFinding(FileA, <<"value missing">>, 100, Some(TagPatientName), Some(<<"details">>)),
     ErrorFinding(FileA, <<"Unexpected exception extracting pixel frames">>, 100, Some(<<"boom">>)),
     HeaderFinding(FileA, <<"Jane Doe">>, 80, Some(TagPatientName), Some(<<"NAME_like">>)),
     ImageFinding(FileA, <<"text excerpt">>, 80, <<"EMAIL">>, 0),
     HeaderFinding(FileC, <<"jdoe@example.org">>, 50, Some(TagPatientName), Some(<<"EMAIL">>)),
     ValidationFinding(FileB, <<"tag missing">>, 100, Some(TagModality), None)}

RpThresholds == {80, 100}

\* The lists of distinct findings of the pool, at most MaxFindings long.
RpLists ==
    {l \in UNION {[1..n -> RpPool] : n \in 1..MaxFindings} :
        \A i, j \in 1..Len(l) : i # j => l[i] # l[j]}

RpInit ==
    /\ ExtraIdle
    /\ RtIdle
    /\ RcIdle
    /\ ScanIdle
    /\ rp_findings \in RpLists
    /\ rp_threshold \in RpThresholds
    /\ rp_store1 = <<>>
    /\ rp_store2 = <<>>
    /\ csv_list1 = None
    /\ csv_list2 = None
    /\ csv_db1 = None
    /\ csv_db2 = None
    /\ rp_pc = "store"

\* The workers persist the findings, once in list order and once in the
\* opposite completion order.
RpStore ==
    /\ rp_pc = "store"
    /\ \A f \in Range(rp_findings) : ~WriteRaises(f)
    /\ rp_store1' = Map(rp_findings, _write_finding_to_db)
    /\ rp_store2' = Map(Reverse(rp_findings), _write_finding_to_db)
    /\ rp_pc' = "list1"
    /\ UNCHANGED <<rp_findings, rp_threshold, csv_list1, csv_list2, csv_db1, csv_db2, notRp>>

\* Report(findings=rp_findings, score=rp_threshold).generate_report()
RpReportList1 ==
    /\ rp_pc = "list1"
    /\ ~GenerateFromListRaises(rp_findings, rp_threshold)
    /\ csv_list1' = Some(GenerateFromList(rp_findings, rp_threshold))
    /\ rp_pc' = "list2"
    /\ UNCHANGED <<rp_findings, rp_threshold, rp_store1, rp_store2, csv_list2, csv_db1, csv_db2, notRp>>

\* The same report from the same findings accumulated in the opposite order.
RpReportList2 ==
    /\ rp_pc = "list2"
    /\ ~GenerateFromListRaises(Reverse(rp_findings), rp_threshold)
    /\ csv_list2' = Some(GenerateFromList(Reverse(rp_findings), rp_threshold))
    /\ rp_pc' = "db1"
    /\ UNCHANGED <<rp_findings, rp_threshold, rp_store1, rp_store2, csv_list1, csv_db1, csv_db2, notRp>>

\* Report(db_path=..., score=rp_threshold).generate_report() on rp_store1
RpReportDb1 ==
    /\ rp_pc = "db1"
    /\ \E tie \in SqlTieOrders :
            csv_db1' = Some(GenerateFromDb(rp_store1, rp_threshold, tie))
    /\ rp_pc' = "db2"
    /\ UNCHANGED <<rp_findings, rp_threshold, rp_store1, rp_store2, csv_list1, csv_list2, csv_db2, notRp>>

\* Report(db_path=..., score=rp_threshold).generate_report() on rp_store2
RpReportDb2 ==
    /\ rp_pc = "db2"
    /\ \E tie \in SqlTieOrders :
            csv_db2' = Some(GenerateFromDb(rp_store2, rp_threshold, tie))
    /\ rp_pc' = "done"
    /\ UNCHANGED <<rp_findings, rp_threshold, rp_store1, rp_store2, csv_list1, csv_list2, csv_db1, notRp>>

RpNext == RpStore \/ RpReportList1 \/ RpReportList2 \/ RpReportDb1 \/ RpReportDb2

SpecReport == RpInit /\ [][RpNext]_vars

\* All the rows of a report, whatever the artifact.
AllRows(csv) == UNION {Range(a.rows) : a \in csv}
\* How many entries of a sequence satisfy a test.
Count(items, Test(_)) == Cardinality({i \in 1..Len(items) : Test(items[i])})

\* The rows of a report that can stand for the finding f: same site, event,
\* file (as a path or as a base name), score and kind.
RowStandsFor(row, f) ==
    /\ row.site_id = f.file.site_id
    /\ row.event_id = f.file.event_id
    /\ row.file_name \in {PathText(f.file.path), basename(f.file.path)}
    /\ row.score = f.score
    /\ row.kind = kind(f)

SameRowKey(f, g) == f.file = g.file /\ f.score = g.score /\ kind(f) = kind(g)

\* A report has a detail row for exactly the findings at or above the threshold.
DetailRowsFollowThreshold(csv) ==
    /\ \A f \in Range(rp_findings) :
            LET n == Cardinality({<<a, i>> \in {<<a, i>> \in csv \X (1..MaxFindings + 1) : i <= Len(a.rows)} :
                                    RowStandsFor(a.rows[i], f)})
            IN  n = IF f.score >= rp_threshold
                    THEN Count(rp_findings, LAMBDA g : SameRowKey(f, g))
                    ELSE 0
    /\ \A row \in AllRows(csv) : \E f \in Range(rp_findings) : RowStandsFor(row, f)

\* The rows of each file of an artifact are grouped by kind in the order of
\* the kind labels, the scores of one kind not increasing.
RowsInKindThenScoreOrder(csv) ==
    \A a \in csv : \A i, j \in 1..Len(a.rows) :
        (i < j /\ a.rows[i].file_name = a.rows[j].file_name) =>
            /\ KindCodePoint(a.rows[i].kind) <= KindCodePoint(a.rows[j].kind)
            /\ a.rows[i].kind = a.rows[j].kind => a.rows[i].score >= a.rows[j].score

\* C5: for the same findings and threshold the report from the in-memory
\* list and the report from the table holding those findings are the same
\* artifacts with the same rows in the same order and the same cells.
C5_ListAndStoreReportsAgree ==
    (csv_list1 # None /\ csv_db1 # None) => Val(csv_list1) = Val(csv_db1)

\* C6: in every artifact, from either source, the rows of one file are grouped
\* by kind in lexicographic order of the kind label and, within one kind, the
\* scores do not increase.
C6_RowsGroupedByKindLabel ==
    /\ csv_list1 # None => RowsInKindThenScoreOrder(Val(csv_list1))
    /\ csv_list2 # None => RowsInKindThenScoreOrder(Val(csv_list2))
    /\ csv_db1 # None => RowsInKindThenScoreOrder(Val(csv_db1))
    /\ csv_db2 # None => RowsInKindThenScoreOrder(Val(csv_db2))

\* C7: the artifacts depend on the findings held, not on the order they were
\* inserted in: two lists, and two tables, holding the same findings in
\* different orders give identical artifacts, equal-score rows included.
C7_ReportIgnoresInsertionOrder ==
    /\ (csv_list1 # None /\ csv_list2 # None) => Val(csv_list1) = Val(csv_list2)
    /\ (csv_db1 # None /\ csv_db2 # None) => Val(csv_db1) = Val(csv_db2)

\* C8: a finding gets a detail row if and only if its score is at or above
\* the report's threshold, from the in-memory list and from the table alike.
C8_DetailRowIffAtOrAboveThreshold ==
    /\ csv_list1 # None => DetailRowsFollowThreshold(Val(csv_list1))
    /\ csv_list2 # None => DetailRowsFollowThreshold(Val(csv_list2))
    /\ csv_db1 # None => DetailRowsFollowThreshold(Val(csv_db1))
    /\ csv_db2 # None => DetailRowsFollowThreshold(Val(csv_db2))

\* Both reports are written, one finding sits exactly on the threshold and
\* has its row, another sits below it.
C8_Witness ==
    /\ rp_pc = "done"
    /\ \E f, g \in Range(rp_findings) :
            /\ f.score = rp_threshold
            /\ g.score < rp_threshold
            /\ \E row \in AllRows(Val(csv_list1)) : RowStandsFor(row, f)
            /\ \E row \in AllRows(Val(csv_db1)) : RowStandsFor(row, f)

(***************************************************************************)
(* Recognizers: SimpleScoring, Accepting, Rejecting                        *)
(***************************************************************************)
IMAGE_SCORE == 80
\* Finding.score when the constructor is given none
DefaultScore == 100

_strict_tags ==
    {<<16, 16>>, <<16, 48>>, <<16, 4096>>, <<16, 4097>>, <<16, 16384>>,
     <<8, 144>>, <<8, 4168>>, <<8, 4176>>, <<8, 4192>>, <<8, 4208>>}
_medium_tags ==
    {<<16, 32>>, <<16, 8544>>, <<16, 8576>>, <<16, 4160>>, <<16, 53>>, <<16, 4192>>,
     <<24, 4096>>}
_contextual_low_risk_tags ==
    {<<8, 128>>, <<8, 129>>, <<8, 4144>>, <<8, 4158>>, <<8, 8465>>, <<32, 16384>>}
\* No value representation counted as free text.
NoFreeTextVRs == {}
_free_text_VRs == {"AE", "AS", "CS", "LO", "LT", "PN", "SH", "ST", "UC", "UT", "UR"}
BinaryVRs == {"OB", "OW", "OF", "OD", "OL", "OV", "UN"}
\* The keys of _patterns in the order the dict holds them.
_patterns == <<"EMAIL", "PHONE", "SSN", "MRN_like", "DOB_like", "NAME_like", "URL">>
_suppress_institution_names == TRUE
_vendor_safe_tags ==
    {<<"Manufacturer">>, <<"ManufacturerModelName">>, <<"DeviceManufacturerName">>,
     <<"SoftwareVersions">>}
_name_like_allowed_tags ==
    {<<"PatientName">>, <<"ReferringPhysicianName">>, <<"PhysiciansOfRecord">>,
     <<"PerformingPhysicianName">>, <<"NameOfPhysiciansReadingStudy">>, <<"OperatorsName">>}

\* What the regular expressions, the entropy measure and the vendor list of
\* the recognizer say of one piece of text: its length, whether it matches
\* _anonymized_patterns, _non_person_hints, _pn_structured, whether
\* _high_entropy holds, whether it contains 'anonymized', whether its
\* normalisation is in _vendor_allow_list, and the keys of _patterns it
\* matches (once each).
Fact(len, anonymized, jargon, pn, entropy, says, vendor, hits) ==
    [len |-> len, anonymized |-> anonymized, jargon |-> jargon, pn |-> pn,
     entropy |-> entropy, says |-> says, vendor |-> vendor, hits |-> hits]

ChunkFacts ==
    ("John Smith" :> Fact(10, FALSE, FALSE, FALSE, TRUE, FALSE, FALSE, {"NAME_like"})) @@
    ("DOE^JOHN" :> Fact(8, FALSE, FALSE, TRUE, TRUE, FALSE, FALSE, {})) @@
    ("ANONYMOUS" :> Fact(9, TRUE, FALSE, FALSE, TRUE, FALSE, FALSE, {})) @@
    ("ANON" :> Fact(4, TRUE, FALSE, FALSE, FALSE, FALSE, FALSE, {})) @@
    ("NA" :> Fact(2, TRUE, FALSE, FALSE, FALSE, FALSE, FALSE, {})) @@
    ("Ann Ann" :> Fact(7, FALSE, FALSE, FALSE, FALSE, FALSE, FALSE, {"NAME_like"})) @@
    ("PATIENT^TEST" :> Fact(12, TRUE, FALSE, TRUE, TRUE, FALSE, FALSE, {})) @@
    ("Axial Smith" :> Fact(11, FALSE, TRUE, FALSE, TRUE, FALSE, FALSE, {"NAME_like"})) @@
    ("jdoe@example.org" :> Fact(16, FALSE, FALSE, FALSE, TRUE, FALSE, FALSE, {"EMAIL"})) @@
    ("555-123-4567" :> Fact(12, FALSE, FALSE, FALSE, TRUE, FALSE, FALSE, {"PHONE"})) @@
    ("123-45-6789" :> Fact(11, FALSE, FALSE, FALSE, TRUE, FALSE, FALSE, {"SSN"})) @@
    ("MRN: 12345" :> Fact(10, FALSE, FALSE, FALSE, TRUE, FALSE, FALSE, {"MRN_like"})) @@
    ("DOB: 01/02/1980" :> Fact(15, FALSE, FALSE, FALSE, TRUE, FALSE, FALSE, {"DOB_like"})) @@
    ("https://x.org/a" :> Fact(15, FALSE, FALSE, FALSE, TRUE, FALSE, FALSE, {"URL"})) @@
    ("MR" :> Fact(2, FALSE, FALSE, FALSE, FALSE, FALSE, FALSE, {})) @@
    ("anonymized patient" :> Fact(18, FALSE, FALSE, FALSE, TRUE, TRUE, FALSE, {})) @@
    ("Siemens Medical Systems" :> Fact(23, FALSE, FALSE, FALSE, TRUE, FALSE, TRUE, {"NAME_like"})) @@
    ("x*90" :> Fact(90, FALSE, FALSE, FALSE, FALSE, FALSE, FALSE, {}))

\* The empty text matches nothing and has no entropy.
EmptyFact == Fact(0, FALSE, FALSE, FALSE, FALSE, FALSE, FALSE, {})
\* The facts of a stripped text: one chunk of the table, or nothing.
Facts(text) == IF text = <<>> THEN EmptyFact ELSE ChunkFacts[text[1]]

Whitespace == {" "}
RECURSIVE LStrip(_)
LStrip(t) == IF t # <<>> /\ Head(t) \in Whitespace THEN LStrip(Tail(t)) ELSE t
\* s.strip()
Strip(t) == Reverse(LStrip(Reverse(LStrip(t))))

\* len(s)
TextLength(t) ==
    IF t = <<>> THEN 0
    ELSE Facts(Strip(t)).len + Cardinality({i \in 1..Len(t) : t[i] \in Whitespace \cup {"NUL"}})

\* s[:n] for the one text of the table longer than n = 80.
FirstChars(t, n) == IF t = <<"x*90">> /\ n = 80 THEN <<"x*80">> ELSE t

\* _displayable_str(v)
_displayable_str(v) == IF TextLength(v) > 80 THEN FirstChars(v, 80) \o <<"...">> ELSE v

\* _normalize_text(s): null bytes removed, stripped (no text here is longer
\* than the 5000 characters it keeps).
_normalize_text(s) == Strip(SelectSeq(s, LAMBDA c : c # "NUL"))

\* _textify(value) of a str value: the normalized text if it is not empty.
_textify(value) ==
    IF _normalize_text(value) = <<>> THEN <<>> ELSE <<_normalize_text(value)>>

\* _high_entropy(s)
_high_entropy(s) == Facts(s).entropy

Min2(a, b) == IF a <= b THEN a ELSE b
Max2(a, b) == IF a >= b THEN a ELSE b

\* A score left as the sum came out.
NoClamp(score) == score
\* max(0.0, min(1.0, score))
Clamp(score) == Max2(0, Min2(100, score))

\* _score(tag, vr, value, matched_key), in hundredths; matched_key is None or
\* Some key.
_score(tag, vr, value, matched_key) ==
    LET text == Strip(value)
        tag_part ==
            IF tag \in _strict_tags THEN 60
            ELSE IF tag \in _medium_tags THEN 20
            ELSE 0
        vr_part == IF vr \in _free_text_VRs THEN 15 ELSE 0
        key_part ==
            IF matched_key = None \/ Val(matched_key) = "" THEN 0
            ELSE IF Val(matched_key) \in {"EMAIL", "PHONE", "SSN"} THEN 50
            ELSE IF Val(matched_key) \in {"MRN_like", "DOB_like"} THEN 35
            ELSE IF Val(matched_key) = "NAME_like"
                 THEN 20 - (IF Facts(text).jargon THEN 15 ELSE 0)
            ELSE IF Val(matched_key) = "PN_structured" THEN 30
            ELSE 0
        pn_part ==
            IF vr = "PN" /\ ~(Facts(text).pn \/ "NAME_like" \in Facts(text).hits)
            THEN 0 - 35 ELSE 0
    IN  IF Facts(text).anonymized THEN 10
        ELSE Clamp(10 + tag_part + vr_part + key_part + pn_part)

\* str(score) of a score in hundredths
FloatText(score) ==
    IntText(score \div 100) \o <<".">> \o
        (IF score % 10 = 0 THEN <<Digits[((score % 100) \div 10) + 1]>>
         ELSE <<Digits[((score % 100) \div 10) + 1], Digits[(score % 10) + 1]>>)

\* One element of a dataset: tag, value representation, a str value.
Element(tag, vr, value) == [tag |-> tag, vr |-> vr, value |-> value]

\* The findings of the strict-tag branch of _recognize_tags for one element.
StrictTagFindings(ds, e) ==
    LET candidates == _textify(e.value)
        Flag(c0) ==
            LET c == Strip(c0)
                score == _score(e.tag, e.vr, c, None)
            IN  IF Facts(c).says THEN <<>>
                ELSE IF _high_entropy(c) THEN <<>>
                ELSE IF c # <<>>
                THEN <<HeaderFinding(FileNameStr(ds.filename), _displayable_str(c), score,
                          Some(e.tag),
                          Some(<<"Strict high-risk tag \"">> \o keyword_for_tag(e.tag)
                               \o <<"\" may need closer look with score ">>
                               \o FloatText(score)))>>
                ELSE <<>>
    IN  IF e.tag \in _strict_tags
        THEN Flatten([i \in 1..Len(candidates) |-> Flag(candidates[i])])
        ELSE <<>>

\* The findings of the pattern branch of _recognize_tags for one element.
PatternFindings(ds, e) ==
    LET candidates == _textify(e.value)
        tag_keyword == keyword_for_tag(e.tag)
        vendor_context == tag_keyword \in _vendor_safe_tags
        allow_name_like_here == tag_keyword \in _name_like_allowed_tags \/ e.vr = "PN"
        Hit(c, key) ==
            IF key = "NAME_like" /\ ~allow_name_like_here THEN <<>>
            ELSE IF key = "NAME_like" /\ vendor_context /\ Facts(c).vendor THEN <<>>
            ELSE IF key \in Facts(c).hits
            THEN <<HeaderFinding(FileNameStr(ds.filename), _displayable_str(c),
                      _score(e.tag, e.vr, c, Some(key)), Some(e.tag),
                      Some(<<"Using pattern ", key>>))>>
            ELSE <<>>
        Scan(c) ==
            IF Strip(c) = <<>> THEN <<>>
            ELSE IF allow_name_like_here /\ Facts(c).pn
            THEN <<HeaderFinding(FileNameStr(ds.filename), _displayable_str(c),
                      _score(e.tag, e.vr, c, Some("PN_structured")), Some(e.tag),
                      Some(<<"Structured name detection <<">> \o c \o <<">>">>))>>
            ELSE Flatten([k \in 1..Len(_patterns) |-> Hit(c, _patterns[k])])
    IN  Flatten([i \in 1..Len(candidates) |-> Scan(candidates[i])])

\* _recognize_tags(ds): every element in dataset order; binary value
\* representations and the institution name are skipped.
_recognize_tags(ds) ==
    LET OfElement(e) ==
            IF e.vr \in BinaryVRs THEN <<>>
            ELSE IF _suppress_institution_names /\ e.tag = <<8, 128>> THEN <<>>
            ELSE StrictTagFindings(ds, e) \o PatternFindings(ds, e)
    IN  Flatten([i \in 1..Len(ds.elems) |-> OfElement(ds.elems[i])])

\* What a call gives back: the exception it raised ("" for none) and the
\* list it returned.
Returned(findings) == [raised |-> "", findings |-> findings]
Raised(exception) == [raised |-> exception, findings |-> <<>>]

\* _recognize_pixels(ds).  The state of ds.pixels is "none" (no pixel_array:
\* no frames), "unreadable" (reading pixel_array raises inside the guarded
\* block of _extract_frames, which logs it and returns no frames), "raises"
\* (hasattr(ds, 'pixel_array') raises, outside the guarded block: an
\* ErrorFinding is appended and the test of the unbound frames raises) or
\* "frames", with the texts OCR reads off them ('' where OCR raised).
_recognize_pixels(ds) ==
    IF ds.pixels.state \in {"none", "unreadable"} THEN Returned(<<>>)
    ELSE IF ds.pixels.state = "raises" THEN Raised("UnboundLocalError")
    ELSE LET OfFrame(idx) ==
                 LET text == ds.pixels.texts[idx + 1]
                     Hit(key) ==
                         IF key \in Facts(text).hits
                         THEN <<ImageFinding(FileNameStr(ds.filename), _displayable_str(text),
                                             IMAGE_SCORE, <<key>>, idx)>>
                         ELSE <<>>
                 IN  IF text = <<>> THEN <<>>
                     ELSE Flatten([k \in 1..Len(_patterns) |-> Hit(_patterns[k])])
         IN  Returned(Flatten([i \in 1..Len(ds.pixels.texts) |-> OfFrame(i - 1)]))

\* SimpleScoring_PHI_PII_Recognizer.recognize(ds)
SimpleScoring_recognize(ds) ==
    IF _recognize_pixels(ds).raised # "" THEN _recognize_pixels(ds)
    ELSE Returned(_recognize_tags(ds) \o _recognize_pixels(ds).findings)

\* Accepting_PHI_PII_Recognizer.recognize(ds)
Accepting_recognize(ds) == Returned(<<>>)

\* Rejecting_PHI_PII_Recognizer.recognize(ds)
Rejecting_recognize(ds) ==
    Returned(<<HeaderFinding(FileNameStr(ds.filename), <<"Jane Doe">>, 100, Some(<<8, 5>>),
                  Some(<<"PHI/PII artificially found for testing purposes, name of patient">>))>>)

(***************************************************************************)
(* The experimental validators                                             *)
(***************************************************************************)
\* Whether the dataset has an element with the tag, and its value.
HasElement(ds, tag) == \E i \in 1..Len(ds.elems) : ds.elems[i].tag = tag
ElementValue(ds, tag) ==
    ds.elems[Min({i \in 1..Len(ds.elems) : ds.elems[i].tag = tag})].value

\* ExperimentalModalityValidator.validate: ds.Modality raises AttributeError
\* on a dataset without the element.
ExperimentalModalityValidator_validate(ds, potential_file) ==
    IF ~HasElement(ds, <<8, 96>>) THEN Raised("AttributeError")
    ELSE Returned(<<ValidationFinding(potential_file, ElementValue(ds, <<8, 96>>), DefaultScore,
                        Some(<<8, 96>>),
                        Some(<<"Modality is always UNACCEPTABLE for testing">>))>>)

\* ExperimentalManufacturerValidator.validate
ExperimentalManufacturerValidator_validate(ds, potential_file) == Returned(<<>>)

\* ExperimentalWarningValidator.validate
ExperimentalWarningValidator_validate(ds, potential_file) ==
    Returned(<<WarningFinding(potential_file, <<"DOESN'T MATTER">>, DefaultScore, Some(<<8, 8>>),
                  Some(<<"WARNING we may or may not have found an ImageType">>))>>)

ExperimentalValidators == {"Modality", "Manufacturer", "Warning"}
validate(validator, ds, potential_file) ==
    CASE validator = "Modality" -> ExperimentalModalityValidator_validate(ds, potential_file)
      [] validator = "Manufacturer" -> ExperimentalManufacturerValidator_validate(ds, potential_file)
      [] validator = "Warning" -> ExperimentalWarningValidator_validate(ds, potential_file)

(***************************************************************************)
(* Recognizers and validators run on one dataset                           *)
(***************************************************************************)
MaxElements == 1

RcTagsAndVRs ==
    {<<<<16, 16>>, "PN">>, <<<<16, 32>>, "LO">>, <<<<8, 4158>>, "LO">>, <<<<8, 128>>, "LO">>,
     <<<<50, 4146>>, "PN">>, <<<<8, 112>>, "PN">>, <<<<8, 96>>, "CS">>, <<<<32736, 16>>, "OW">>}
RcValues ==
    {<<c>> : c \in DOMAIN ChunkFacts} \cup {<<>>, <<" ", "John Smith", " ">>, <<"NUL", "MR">>}
RcElements == {Element(tv[1], tv[2], v) : tv \in RcTagsAndVRs, v \in RcValues}
RcPixels ==
    {[state |-> "none", texts |-> <<>>], [state |-> "raises", texts |-> <<>>],
     [state |-> "unreadable", texts |-> <<>>],
     [state |-> "frames",
      texts |-> <<<<"MR">>, <<"jdoe@example.org">>, <<>>, <<"555-123-4567">>>>]}
RcFilename == <<"CollX", "SiteA", "1234567", "a.dcm">>
RcDatasets ==
    {[filename |-> RcFilename, elems |-> es, pixels |-> px] :
        es \in UNION {[1..n -> RcElements] : n \in 1..MaxElements}, px \in RcPixels}
\* The keys _recognize_tags hands to _score, and the other values a caller can pass.
MatchedKeys == {None, Some("PN_structured")} \cup {Some(_patterns[k]) : k \in 1..Len(_patterns)}

RcInit ==
    /\ ExtraIdle
    /\ RtIdle
    /\ RpIdle
    /\ ScanIdle
    /\ rc_ds \in RcDatasets
    /\ rc_findings = None
    /\ rc_raised = ""
    /\ rc_call = None
    /\ rc_pc = "start"

\* What a call leaves: the list it returned, or the exception it raised.
RcOutcome(outcome, pc) ==
    /\ rc_findings' = IF outcome.raised = "" THEN Some(outcome.findings) ELSE None
    /\ rc_raised' = outcome.raised
    /\ rc_pc' = pc
    /\ UNCHANGED <<rc_ds, rc_call, notRc>>

\* One call of _score on an element of the dataset with any matched key (the
\* table of facts has no text with a null byte left in it).
RcScore ==
    /\ rc_pc = "start"
    /\ \E i \in 1..Len(rc_ds.elems), key \in MatchedKeys :
            LET e == rc_ds.elems[i]
            IN  /\ "NUL" \notin Range(e.value)
                /\ rc_call' = Some([tag |-> e.tag, vr |-> e.vr, value |-> e.value,
                                 matched_key |-> key,
                                 score |-> _score(e.tag, e.vr, e.value, key)])
    /\ rc_pc' = "scored"
    /\ UNCHANGED <<rc_ds, rc_findings, rc_raised, notRc>>

RcSimpleScoring ==
    /\ rc_pc = "start"
    /\ RcOutcome(SimpleScoring_recognize(rc_ds), "recognized")

RcAccepting ==
    /\ rc_pc = "start"
    /\ RcOutcome(Accepting_recognize(rc_ds), "accepted")

RcRejecting ==
    /\ rc_pc = "start"
    /\ RcOutcome(Rejecting_recognize(rc_ds), "rejected")

\* One validator run on the file descriptor of the dataset.
RcValidate ==
    /\ rc_pc = "start"
    /\ \E validator \in ExperimentalValidators :
            RcOutcome(validate(validator, rc_ds, PotentialFile(rc_ds.filename, None, None)),
                      "validated")

RcNext == RcScore \/ RcSimpleScoring \/ RcAccepting \/ RcRejecting \/ RcValidate

SpecRecognize == RcInit /\ [][RcNext]_vars

\* C9: every finding a recognizer or a validator returns has a score within
\* [0, 1], and _score returns a value within [0, 1] for every tag, value
\* representation, matched key and value.
C9_ScoresWithinUnitInterval ==
    /\ rc_findings # None =>
            \A i \in 1..Len(Val(rc_findings)) :
                Val(rc_findings)[i].score >= 0 /\ Val(rc_findings)[i].score <= 100
    /\ rc_call # None => Val(rc_call).score >= 0 /\ Val(rc_call).score <= 100

\* _score was called where the sum of the parts is above 1 and gave 1.
C9_Witness ==
    /\ rc_call # None
    /\ Val(rc_call).tag \in _strict_tags
    /\ Val(rc_call).vr = "PN"
    /\ Val(rc_call).matched_key = Some("EMAIL")
    /\ Val(rc_call).value = <<"John Smith">>
    /\ Val(rc_call).score = 100

NFiles == 2
NWorkers == 2

\* A discovered file: its path, whether pydicom can read it ("ok", or the
\* exception dcmread raises) and the dataset it holds.
DiscoveredFile(path, readable, elems, pixels) ==
    [path |-> path, readable |-> readable,
     ds |-> [filename |-> path, elems |-> elems, pixels |-> pixels]]

NoPixels == [state |-> "none", texts |-> <<>>]
FileNames == <<"a.dcm", "b.dcm", "c.dcm", "d.dcm">>
PathOfFile(i) == <<"CollX", "SiteA", "1234567", FileNames[i]>>

\* What a file can hold: not DICOM, unreadable, a low-entropy patient name
\* with a modality, an e-mail address in a tag and in the pixels without a
\* modality, and a modality only.
FileContents(path) ==
    {DiscoveredFile(path, "InvalidDicomError", <<>>, NoPixels),
     DiscoveredFile(path, "IOError", <<>>, NoPixels),
     DiscoveredFile(path, "ok",
        <<Element(<<16, 16>>, "PN", <<"MR">>), Element(<<8, 96>>, "CS", <<"MR">>)>>, NoPixels),
     DiscoveredFile(path, "ok",
        <<Element(<<16, 32>>, "LO", <<"jdoe@example.org">>)>>,
        [state |-> "frames", texts |-> <<<<"jdoe@example.org">>>>]),
     DiscoveredFile(path, "ok", <<Element(<<8, 96>>, "CS", <<"MR">>)>>, NoPixels)}

PHI_PII_RECOGNIZERS == {"accepting", "rejecting", "simple-scoring"}
\* The lists of validators a run can be registered with.
ValidatorLists == {<<"Manufacturer">>, <<"Modality", "Warning">>}

\* _recognizer.recognize(file): the accepting and rejecting recognizers read
\* the file name only, the scoring recognizer reads the dataset.
recognize(name, file) ==
    CASE name = "accepting" -> Accepting_recognize(file.ds)
      [] name = "rejecting" -> Rejecting_recognize(file.ds)
      [] name = "simple-scoring" ->
            IF file.readable # "ok" THEN Raised(file.readable)
            ELSE SimpleScoring_recognize(file.ds)

\* validator.validate(potential_file): only the modality validator reads the file.
ValidateFile(validator, file) ==
    IF validator = "Modality" /\ file.readable # "ok" THEN Raised(file.readable)
    ELSE validate(validator, file.ds, PotentialFile(file.path, None, None))

\* findings.extend(more): the first exception ends the gathering.
Extend(gathered, more) ==
    IF gathered.raised # "" THEN gathered
    ELSE IF more.raised # "" THEN more
    ELSE Returned(gathered.findings \o more.findings)

RECURSIVE RunValidators(_, _, _)
\* for validator in VALIDATORS: findings.extend(validator.validate(potential_file))
RunValidators(vs, file, gathered) ==
    IF vs = <<>> \/ gathered.raised # "" THEN gathered
    ELSE RunValidators(Tail(vs), file, Extend(gathered, ValidateFile(Head(vs), file)))

\* The findings _scan_one gathers for a file before it returns or writes
\* them, or the exception the recognizer or a validator raised.
Gathered(name, vs, file) == RunValidators(vs, file, recognize(name, file))

\* Only the two file errors are caught.
CatchesFileErrorsOnly(exception) == exception \in {"InvalidDicomError", "IOError"}
\* The except clauses of _scan_one: InvalidDicomError, IOError, Exception.
\* KeyboardInterrupt is no Exception.
Catches(exception) ==
    \/ exception = "InvalidDicomError"
    \/ exception = "IOError"
    \/ exception # "KeyboardInterrupt"

\* What _scan_one returns with _db_path None once the findings are gathered:
\* the findings, [] when an exception was caught; a KeyboardInterrupt leaves it.
_scan_one_single(gathered) ==
    IF gathered.raised = "" THEN gathered
    ELSE IF Catches(gathered.raised) THEN Returned(<<>>)
    ELSE gathered

(***************************************************************************)
(* validate_single, then validate_pool, on the same files                  *)
(***************************************************************************)
Files == 1..NFiles
Workers == 1..NWorkers
IdleWorker ==
    [file |-> 0, pc |-> "idle", findings |-> <<>>, next |-> 1, txn |-> <<>>,
     lock |-> FALSE, conn |-> FALSE]

Init ==
    /\ ExtraIdle
    /\ RtIdle
    /\ RpIdle
    /\ RcIdle
    /\ recognizer_name \in PHI_PII_RECOGNIZERS
    /\ validators \in ValidatorLists
    /\ files \in {fs \in [Files -> UNION {FileContents(PathOfFile(i)) : i \in Files}] :
                    \A i \in Files : fs[i].path = PathOfFile(i)}
    /\ phase = "single"
    /\ single_next = 1
    /\ results = <<>>
    /\ single_log = <<>>
    /\ coordinator = "off"
    /\ database = "none"
    /\ task = [f \in Files |-> "unsubmitted"]
    /\ future_result = [f \in Files |-> 0]
    /\ pool_log = [f \in Files |-> ""]
    /\ collected = {}
    /\ total_findings = 0
    /\ worker = [w \in Workers |-> IdleWorker]
    /\ findings_table = <<>>
    /\ interrupted = FALSE
    /\ store_failed = FALSE

\* One turn of the loop of validate_single: _scan_one on the next file, its
\* list appended to results; an exception leaving _scan_one leaves
\* validate_single too.
SingleScan ==
    /\ phase = "single"
    /\ single_next <= Len(files)
    /\ \E gathered \in {Gathered(recognizer_name, validators, files[single_next])} :
       \E returned \in {_scan_one_single(gathered)} :
           /\ single_log' = Append(single_log,
                    [raised |-> gathered.raised,
                     left |-> returned.raised,
                     count |-> Len(returned.findings)])
           /\ IF returned.raised # ""
              THEN phase' = "aborted" /\ UNCHANGED <<single_next, results>>
              ELSE /\ results' = results \o returned.findings
                   /\ single_next' = single_next + 1
                   /\ phase' = phase
    /\ UNCHANGED <<scanInputs, poolVars, notScan>>

\* validate_single returns results; the same files are then given to
\* validate_pool.
SingleReturn ==
    /\ phase = "single"
    /\ single_next > Len(files)
    /\ phase' = "pool"
    /\ coordinator' = "start"
    /\ UNCHANGED <<scanInputs, singleVars, database, task, future_result, pool_log, collected,
                   total_findings, worker, findings_table, interrupted, store_failed, notScan>>

\* validate_pool creates the temporary file and _create_findings_db the table.
CreateDb ==
    /\ phase = "pool"
    /\ coordinator = "start"
    /\ database' = "ready"
    /\ coordinator' = "running"
    /\ UNCHANGED <<scanInputs, phase, singleVars, task, future_result, pool_log, collected,
                   total_findings, worker, findings_table, interrupted, store_failed, notScan>>

\* _create_findings_db raises (sqlite3.connect or CREATE TABLE is refused):
\* the call stands before the try of validate_pool, so the exception leaves
\* validate_pool and the temporary file, made with delete=False, stays.
CreateDbRaises ==
    /\ phase = "pool"
    /\ coordinator = "start"
    /\ database' = "file"
    /\ coordinator' = "fatal"
    /\ phase' = "done"
    /\ store_failed' = TRUE
    /\ UNCHANGED <<scanInputs, singleVars, task, future_result, pool_log, collected,
                   total_findings, worker, findings_table, interrupted, notScan>>

\* as_completed first draws every future from the generator: each file is
\* submitted, in order.
Submit ==
    /\ coordinator = "running"
    /\ \E f \in Files :
            /\ task[f] = "unsubmitted"
            /\ \A g \in Files : g < f => task[g] # "unsubmitted"
            /\ task' = [task EXCEPT ![f] = "queued"]
    /\ UNCHANGED <<scanInputs, phase, singleVars, coordinator, database, future_result, pool_log,
                   collected, total_findings, worker, findings_table, interrupted, store_failed,
                   notScan>>

\* as_completed yields a finished future: its count is added to
\* total_findings; an exception held by the future leaves the loop and the
\* with block.
Collect ==
    /\ coordinator = "running"
    /\ \A g \in Files : task[g] # "unsubmitted"
    /\ \E f \in Files \ collected :
            /\ task[f] \in {"done", "failed"}
            /\ collected' = collected \cup {f}
            /\ IF task[f] = "failed"
               THEN coordinator' = "aborting" /\ UNCHANGED total_findings
               ELSE /\ total_findings' = total_findings + future_result[f]
                    /\ coordinator' = IF collected' = Files THEN "shutdown" ELSE "running"
    /\ UNCHANGED <<scanInputs, phase, singleVars, database, task, future_result, pool_log,
                   worker, findings_table, interrupted, store_failed, notScan>>

\* KeyboardInterrupt in the parent while it submits or waits: the loop is
\* left, the count of what was not yet collected is not added.
Interrupt ==
    /\ coordinator = "running"
    /\ interrupted' = TRUE
    /\ coordinator' = "shutdown"
    /\ UNCHANGED <<scanInputs, phase, singleVars, database, task, future_result, pool_log,
                   collected, total_findings, worker, findings_table, store_failed, notScan>>

\* An end of the with block that does not wait for the tasks.
ReturnWithoutWaiting ==
    /\ coordinator \in {"shutdown", "aborting"}
    /\ coordinator' = IF coordinator = "aborting" THEN "raised" ELSE "returned"
    /\ database' = IF coordinator = "aborting" THEN "removed" ELSE database
    /\ phase' = "done"
    /\ UNCHANGED <<scanInputs, singleVars, task, future_result, pool_log, collected,
                   total_findings, worker, findings_table, interrupted, store_failed, notScan>>

\* The with block ends: shutdown(wait=True) returns once every submitted
\* task has run; validate_pool returns, or removes the database and raises.
Return ==
    /\ coordinator \in {"shutdown", "aborting"}
    /\ \A f \in Files : task[f] \notin {"queued", "running"}
    /\ coordinator' = IF coordinator = "aborting" THEN "raised" ELSE "returned"
    /\ database' = IF coordinator = "aborting" THEN "removed" ELSE database
    /\ phase' = "done"
    /\ UNCHANGED <<scanInputs, singleVars, task, future_result, pool_log, collected,
                   total_findings, worker, findings_table, interrupted, store_failed, notScan>>

\* The findings list of the _scan_one call the worker w is in.
FindingsOf(w) == worker[w].findings

\* A close that keeps the rows inserted so far.
KeptOnClose(txn) == txn
\* What conn.close() keeps of a transaction that was not committed: nothing.
RolledBackOnClose(txn) == <<>>

\* An end of _scan_one that leaves the lock held and the connection open
\* when an exception ended the write.
EndTaskHoldingLock(w, exception, count) ==
    LET f == worker[w].file
    IN  /\ worker' = [worker EXCEPT ![w] =
                        IF exception # ""
                        THEN [IdleWorker EXCEPT !.lock = worker[w].lock, !.conn = worker[w].conn]
                        ELSE IdleWorker]
        /\ pool_log' = [pool_log EXCEPT ![f] = exception]
        /\ IF exception # "" /\ ~Catches(exception)
           THEN task' = [task EXCEPT ![f] = "failed"] /\ UNCHANGED future_result
           ELSE /\ task' = [task EXCEPT ![f] = "done"]
                /\ future_result' = [future_result EXCEPT ![f] = count]

\* _scan_one ends in the worker: the future gets the count, or the exception
\* no except clause caught; the connection is closed and the lock released.
EndTask(w, exception, count) ==
    LET f == worker[w].file
    IN  /\ worker' = [worker EXCEPT ![w] = IdleWorker]
        /\ pool_log' = [pool_log EXCEPT ![f] = exception]
        /\ IF exception # "" /\ ~Catches(exception)
           THEN task' = [task EXCEPT ![f] = "failed"] /\ UNCHANGED future_result
           ELSE /\ task' = [task EXCEPT ![f] = "done"]
                /\ future_result' = [future_result EXCEPT ![f] = count]

\* A take that leaves the task in the queue.
WorkerTakeLeavingQueued(w) ==
    /\ phase = "pool"
    /\ worker[w].pc = "idle"
    /\ \E f \in Files :
            /\ task[f] = "queued"
            /\ \A g \in Files : g < f => task[g] # "queued"
            /\ worker' = [worker EXCEPT ![w] = [IdleWorker EXCEPT !.file = f, !.pc = "scan"]]
    /\ UNCHANGED <<scanInputs, phase, singleVars, coordinator, database, task, future_result,
                   pool_log, collected, total_findings, findings_table, interrupted,
                   store_failed, notScan>>

\* An idle worker process takes the oldest queued task.
WorkerTake(w) ==
    /\ phase = "pool"
    /\ worker[w].pc = "idle"
    /\ \E f \in Files :
            /\ task[f] = "queued"
            /\ \A g \in Files : g < f => task[g] # "queued"
            /\ task' = [task EXCEPT ![f] = "running"]
            /\ worker' = [worker EXCEPT ![w] = [IdleWorker EXCEPT !.file = f, !.pc = "scan"]]
    /\ UNCHANGED <<scanInputs, phase, singleVars, coordinator, database, future_result, pool_log,
                   collected, total_findings, findings_table, interrupted, store_failed, notScan>>

\* _scan_one up to the write: the recognizer and the validators run; an
\* exception or an empty list ends the task with 0, otherwise the worker
\* takes its lock and connects to the database.
WorkerScan(w) ==
    /\ worker[w].pc = "scan"
    /\ \E gathered \in {Gathered(recognizer_name, validators, files[worker[w].file])} :
           IF gathered.raised # "" \/ gathered.findings = <<>>
           THEN EndTask(w, gathered.raised, 0)
           ELSE /\ worker' = [worker EXCEPT ![w].pc = "write",
                                             ![w].findings = gathered.findings,
                                             ![w].lock = TRUE, ![w].conn = TRUE]
                /\ UNCHANGED <<task, future_result, pool_log>>
    /\ UNCHANGED <<scanInputs, phase, singleVars, coordinator, database, collected,
                   total_findings, findings_table, interrupted, store_failed, notScan>>

\* What sqlite3.connect raises when it cannot open the database file.
CannotOpen == "OperationalError: unable to open database file"

\* sqlite3.connect(_db_path) raises in the worker: the call stands inside the
\* try of _scan_one, the except Exception clause logs it and returns 0.
WorkerConnectRaises(w) ==
    /\ worker[w].pc = "scan"
    /\ \E gathered \in {Gathered(recognizer_name, validators, files[worker[w].file])} :
            /\ gathered.raised = ""
            /\ gathered.findings # <<>>
    /\ store_failed' = TRUE
    /\ EndTask(w, CannotOpen, 0)
    /\ UNCHANGED <<scanInputs, phase, singleVars, coordinator, database, collected,
                   total_findings, findings_table, interrupted, notScan>>

\* _write_finding_to_db for the next finding: the row joins the transaction.
WorkerInsert(w) ==
    /\ worker[w].pc = "write"
    /\ worker[w].next <= Len(FindingsOf(w))
    /\ ~WriteRaises(FindingsOf(w)[worker[w].next])
    /\ worker' = [worker EXCEPT
                    ![w].txn = Append(@, _write_finding_to_db(FindingsOf(w)[worker[w].next])),
                    ![w].next = @ + 1]
    /\ UNCHANGED <<scanInputs, phase, singleVars, coordinator, database, task, future_result,
                   pool_log, collected, total_findings, findings_table, interrupted, store_failed,
                   notScan>>

\* _write_finding_to_db raises: AttributeError on a finding whose file is no
\* PotentialFile, or SQLite refuses the insert.  The connection is closed
\* without a commit and the except clause returns 0.
WorkerInsertRaises(w) ==
    /\ worker[w].pc = "write"
    /\ worker[w].next <= Len(FindingsOf(w))
    /\ \E exception \in {"AttributeError", "OperationalError"} :
            /\ exception = "AttributeError" <=> WriteRaises(FindingsOf(w)[worker[w].next])
            /\ store_failed' = (store_failed \/ exception = "OperationalError")
            /\ findings_table' = findings_table \o RolledBackOnClose(worker[w].txn)
            /\ EndTask(w, exception, 0)
    /\ UNCHANGED <<scanInputs, phase, singleVars, coordinator, database, collected,
                   total_findings, interrupted, notScan>>

\* conn.commit(): the rows of the transaction become visible together;
\* _scan_one returns len(findings).
WorkerCommit(w) ==
    /\ worker[w].pc = "write"
    /\ worker[w].next > Len(FindingsOf(w))
    /\ findings_table' = findings_table \o worker[w].txn
    /\ EndTask(w, "", Len(FindingsOf(w)))
    /\ UNCHANGED <<scanInputs, phase, singleVars, coordinator, database, collected,
                   total_findings, interrupted, store_failed, notScan>>

\* conn.commit() raises: nothing of the transaction is kept.
WorkerCommitRaises(w) ==
    /\ worker[w].pc = "write"
    /\ worker[w].next > Len(FindingsOf(w))
    /\ store_failed' = TRUE
    /\ findings_table' = findings_table \o RolledBackOnClose(worker[w].txn)
    /\ EndTask(w, "OperationalError", 0)
    /\ UNCHANGED <<scanInputs, phase, singleVars, coordinator, database, collected,
                   total_findings, interrupted, notScan>>

WorkerStep(w) ==
    \/ WorkerTake(w)
    \/ WorkerScan(w)
    \/ WorkerConnectRaises(w)
    \/ WorkerInsert(w)
    \/ WorkerInsertRaises(w)
    \/ WorkerCommit(w)
    \/ WorkerCommitRaises(w)

Next ==
    \/ SingleScan
    \/ SingleReturn
    \/ CreateDb
    \/ CreateDbRaises
    \/ Submit
    \/ Collect
    \/ Interrupt
    \/ Return
    \/ \E w \in Workers : WorkerStep(w)

Spec == Init /\ [][Next]_vars

\* The steps of validate_pool in the parent process, a KeyboardInterrupt
\* apart.
PoolStep ==
    \/ CreateDb
    \/ CreateDbRaises
    \/ Submit
    \/ Collect
    \/ Return

\* Every _scan_one call a worker is in comes to its end.
ScanOneTerminates ==
    \A w \in Workers : (worker[w].pc # "idle") ~> (worker[w].pc = "idle")

\* The parent process keeps running validate_pool, an idle worker process
\* takes a queued task, and every _scan_one call terminates.
SpecFair ==
    /\ Init
    /\ [][Next]_vars
    /\ WF_vars(PoolStep)
    /\ \A w \in Workers : WF_vars(WorkerTake(w))
    /\ ScanOneTerminates

\* The (file path, kind, value) triple of a finding of the results list and
\* of a row of the findings table.
PathOfFinding(f) == IF IsPotentialFile(f.file) THEN f.file.path ELSE f.file.text
TripleOfFinding(f) == <<PathOfFinding(f), kind(f), f.value>>
TripleOfRow(row) == <<row.file_path, kind([cls |-> row.finding_type]), row.value>>
RowsOfFile(f) == SelectSeq(findings_table, LAMBDA row : row.file_path = PathOfFile(f))

C3_FileFailuresAreContained ==
    /\ \A i \in 1..Len(single_log) :
            single_log[i].raised # "" => single_log[i].left = "" /\ single_log[i].count = 0
    /\ phase # "aborted"
    /\ phase \in {"pool", "done"} => Len(single_log) = NFiles
    /\ \A f \in Files :
            (pool_log[f] # "" /\ task[f] \in {"done", "failed"}) =>
                task[f] = "done" /\ future_result[f] = 0
    /\ coordinator \notin {"aborting", "raised"}
    /\ (coordinator = "returned" /\ ~interrupted) => \A f \in Files : task[f] = "done"

\* Both runs are over; a file raised in the single run and in its worker,
\* and a later file was scanned and gave findings in both runs.
C3_Witness ==
    /\ coordinator = "returned"
    /\ ~interrupted
    /\ \E f, g \in Files :
            /\ f < g
            /\ single_log[f].raised # ""
            /\ pool_log[f] # ""
            /\ future_result[f] = 0
            /\ single_log[g].count > 0
            /\ future_result[g] > 0

\* C4: in every state of the findings table, a KeyboardInterrupt in the
\* parent or an exception in the middle of a write included, each file has
\* all of its findings committed or none of them.
C4_FileCommittedWholeOrNotAtAll ==
    phase \in {"pool", "done"} =>
        \A f \in Files :
            \/ Len(RowsOfFile(f)) = 0
            \/ Len(RowsOfFile(f)) = Len(Gathered(recognizer_name, validators, files[f]).findings)

\* The parent was interrupted; one worker has inserted the first of its two
\* findings and none shows in the table, where another file has both of its
\* rows.
C4_Witness ==
    /\ interrupted
    /\ \E w \in Workers :
            /\ worker[w].pc = "write"
            /\ Len(worker[w].findings) = 2
            /\ worker[w].next = 2
            /\ Len(worker[w].txn) = 1
            /\ Len(RowsOfFile(worker[w].file)) = 0
            /\ \E g \in Files : Len(RowsOfFile(g)) = 2

\* C23: a worker holds its lock and an open connection only in the write
\* phase of _scan_one, never while the recognizer or a validator runs nor
\* between two files; however the write phase ends, an insert or the commit
\* raising included, the connection is closed and the lock released, so the
\* next file of the worker finds the lock free.
C23_LockAndConnectionOnlyWhileWriting ==
    \A w \in Workers :
        /\ (worker[w].lock \/ worker[w].conn) => worker[w].pc = "write"
        /\ worker[w].pc = "write" => (worker[w].lock /\ worker[w].conn)

\* A write has ended with an exception; a worker now writes the findings of
\* a later file, holding its lock, and every other worker is idle with its
\* lock free.
C23_Witness ==
    \E f, g \in Files, w \in Workers :
        /\ f < g
        /\ task[f] = "done"
        /\ pool_log[f] \in {"AttributeError", "OperationalError"}
        /\ worker[w].pc = "write"
        /\ worker[w].file = g
        /\ worker[w].lock
        /\ worker[w].conn
        /\ \A v \in Workers \ {w} : worker[v].pc = "idle" /\ ~worker[v].lock /\ ~worker[v].conn

\* How far the task of a file has come.
TaskRank(state) ==
    CASE state = "unsubmitted" -> 0
      [] state = "queued" -> 1
      [] state = "running" -> 2
      [] state \in {"done", "failed"} -> 3

\* C24: in validate_pool a file is submitted as one task and scanned at most
\* once: its task only moves forward (submitted, taken by one worker, ended),
\* a task that has ended, with findings, with none or with an exception, is
\* never submitted or run again, and the rows of a file, once in the table,
\* are not written again.
C24_EachFileOneTaskNeverRetried ==
    [][\A f \in Files :
            /\ TaskRank(task'[f]) >= TaskRank(task[f])
            /\ Cardinality({w \in Workers : worker'[w].file = f}) <= 1
            /\ \A w \in Workers : worker'[w].file = f => task'[f] = "running"
            /\ task[f] \in {"done", "failed"} =>
                    /\ task'[f] = task[f]
                    /\ RowsOfFile(f)' = RowsOfFile(f)
            /\ RowsOfFile(f) # <<>> => RowsOfFile(f)' = RowsOfFile(f)]_vars

\* validate_pool has returned; the scan of one file raised and gave no rows,
\* the scan of another gave rows, and every task has ended.
C24_Witness ==
    /\ coordinator = "returned"
    /\ \A f \in Files : task[f] = "done"
    /\ \E f, g \in Files :
            /\ pool_log[f] # ""
            /\ RowsOfFile(f) = <<>>
            /\ pool_log[g] = ""
            /\ RowsOfFile(g) # <<>>

\* C25: with every _scan_one call ending and the workers scheduled fairly,
\* a validate_pool that has started its pool and is not interrupted
\* eventually returns, with the task of every file ended; and it never
\* returns while a task is queued or running or, not interrupted, while a
\* file is not submitted.
C25_PoolReturnsOnceEveryTaskEnded ==
    /\ [](coordinator = "returned" =>
            \A f \in Files :
                /\ task[f] \notin {"queued", "running"}
                /\ ~interrupted => task[f] # "unsubmitted")
    /\ (coordinator = "running" /\ ~interrupted)
            ~> (interrupted \/ (coordinator = "returned" /\ \A f \in Files : task[f] = "done"))

\* validate_pool has returned without an interrupt, every future collected.
C25_Witness ==
    /\ coordinator = "returned"
    /\ ~interrupted
    /\ collected = Files
    /\ \A f \in Files : task[f] = "done"

C19_StoreFailureAbortsAndCleansUp ==
    /\ coordinator = "fatal" => database \in {"none", "removed"}
    /\ (phase = "done" /\ \E f \in Files : pool_log[f] = CannotOpen) =>
            /\ coordinator \in {"raised", "fatal"}
            /\ database \in {"none", "removed"}

(***************************************************************************)
(* textify_dicom_value and the regex validators                            *)
(***************************************************************************)
\* The Python values textify_dicom_value tells apart: a str, bytes (with
\* the text they decode to and its length), a list of values, and anything
\* else (with what str() gives for it).
StrValue(t) == [type |-> "str", text |-> t]
BytesValue(t, n) == [type |-> "bytes", decoded |-> t, len |-> n]
ListValue(items) == [type |-> "list", items |-> items]
OtherValue(t) == [type |-> "other", str |-> t]

\* textify_dicom_value(value).  The one decoded text of 100 characters is
\* its own first 100 characters.
RECURSIVE textify_dicom_value(_)
textify_dicom_value(value) ==
    CASE value.type = "str" -> <<value.text>>
      [] value.type = "bytes" ->
            IF value.len < 100 THEN <<value.decoded>>
            ELSE <<value.decoded \o <<"(ellipsis)">>>>
      [] value.type = "list" ->
            Flatten([i \in 1..Len(value.items) |-> textify_dicom_value(value.items[i])])
      [] OTHER -> <<value.str>>

\* The class attributes of the validator the model runs: those of
\* ModalityValidator.  Of the stripped texts of the model, regex.match
\* accepts 'MR'; with re.IGNORECASE it accepts 'mr' too.
RegexTag == <<8, 96>>
RegexDescription == <<"Modality must be a valid DICOM code (CT, MR, MG, PT, etc.)">>
RegexMatches == {<<"MR">>}
IgnoreCaseMatches == {<<"MR">>, <<"mr">>}

RegexValidators == {"RegexValidator", "CaseInsensitiveAndWarningRegexValidator"}

\* _match_pattern(value): "match", "none" (no match: None is returned) or
\* "raise" (_CaseMismatchError).
_match_pattern(validator, v) ==
    IF v \in RegexMatches THEN "match"
    ELSE IF validator = "CaseInsensitiveAndWarningRegexValidator" /\ v \in IgnoreCaseMatches
         THEN "raise"
         ELSE "none"

\* not value or not any(v.strip() for v in value)
NoTextValueOnly(value) == value = <<>>
ValueMissing(value) == value = <<>> \/ \A i \in 1..Len(value) : Strip(value[i]) = <<>>

RaisedCaseMismatch(v) == [raised |-> "_CaseMismatchError", findings |-> <<>>, args |-> v]

\* The loop over the text values: a finding per stripped non-empty value the
\* pattern does not match, until _match_pattern raises.
RECURSIVE CheckValues(_, _, _, _)
CheckValues(validator, potential_file, value, findings) ==
    IF value = <<>> THEN Returned(findings)
    ELSE \* v = v.strip(); if not v: continue
         IF Strip(Head(value)) = <<>>
         THEN CheckValues(validator, potential_file, Tail(value), findings)
         ELSE IF _match_pattern(validator, Strip(Head(value))) = "raise"
              THEN RaisedCaseMismatch(Strip(Head(value)))
              ELSE IF _match_pattern(validator, Strip(Head(value))) = "match"
                   THEN CheckValues(validator, potential_file, Tail(value), findings)
                   ELSE CheckValues(validator, potential_file, Tail(value),
                            Append(findings,
                                ValidationFinding(potential_file, Strip(Head(value)), DefaultScore,
                                    Some(RegexTag),
                                    Some(<<"Value for tag does not match expected pattern: ">>
                                            \o RegexDescription))))

\* RegexValidator.validate, given the element ds.get_item(self.tag) found.
RegexValidator_validate(validator, elem, potential_file) ==
    IF elem = None
    THEN Returned(<<ValidationFinding(potential_file, <<"tag missing">>, DefaultScore,
                        Some(RegexTag), Some(<<"Required tag not found in DICOM dataset">>))>>)
    ELSE IF ValueMissing(textify_dicom_value(Val(elem)))
         THEN Returned(<<ValidationFinding(potential_file, <<"value missing">>, DefaultScore,
                             Some(RegexTag),
                             Some(<<"Tag found but missing a value in DICOM dataset">>))>>)
         ELSE CheckValues(validator, potential_file, textify_dicom_value(Val(elem)), <<>>)

\* CaseInsensitiveAndWarningRegexValidator.validate
CaseInsensitiveAndWarningRegexValidator_validate(elem, potential_file) ==
    \* A set of one element binds the outcome of super().validate once.
    CHOOSE outcome \in
        {IF r.raised = "_CaseMismatchError"
         THEN Returned(<<WarningFinding(potential_file, Quoted(r.args), DefaultScore,
                             Some(RegexTag),
                             Some(TagText(RegexTag) \o <<" Value for ">> \o keyword_for_tag(RegexTag)
                                    \o <<" matches expected pattern but uses incorrect case; ">>
                                    \o RegexDescription))>>)
         ELSE r :
            r \in {RegexValidator_validate("CaseInsensitiveAndWarningRegexValidator",
                                           elem, potential_file)}} : TRUE

(***************************************************************************)
(* A regex validator run on one element                                    *)
(***************************************************************************)
MaxValues == 3

RvTexts == {<<>>, <<" ">>, <<"MR">>, <<" ", "MR", " ">>, <<"mr">>, <<"XX">>}
RvValues ==
    {StrValue(t) : t \in RvTexts}
    \cup {ListValue([i \in 1..Len(ts) |-> StrValue(ts[i])]) :
            ts \in UNION {[1..n -> RvTexts] : n \in 0..MaxValues}}
    \cup {ListValue(<<StrValue(<<"XX">>), ListValue(<<StrValue(<<"mr">>), StrValue(<<"XX">>)>>)>>),
          BytesValue(<<"MR">>, 2), BytesValue(<<"9*100">>, 100),
          OtherValue(<<"None">>), OtherValue(<<"1">>)}
RvFile == PotentialFile(<<"CollX", "SiteA", "1234567", "a.dcm">>, None, None)

RvInit ==
    /\ FirstIdle
    /\ RnIdle
    /\ AmIdle
    /\ FrIdle
    /\ SbIdle
    /\ TwIdle
    /\ UdIdle
    /\ DcIdle
    /\ PfIdle
    /\ MnIdle
    /\ rv_validator \in RegexValidators
    /\ rv_elem \in {None} \cup {Some(v) : v \in RvValues}
    /\ rv_outcome = None
    /\ rv_pc = "start"

RvValidate ==
    /\ rv_pc = "start"
    /\ rv_validator = "RegexValidator"
    /\ rv_outcome' = Some(RegexValidator_validate(rv_validator, rv_elem, RvFile))
    /\ rv_pc' = "validated"
    /\ UNCHANGED <<rv_validator, rv_elem, notRv>>

RvValidateCaseInsensitive ==
    /\ rv_pc = "start"
    /\ rv_validator = "CaseInsensitiveAndWarningRegexValidator"
    /\ rv_outcome' = Some(CaseInsensitiveAndWarningRegexValidator_validate(rv_elem, RvFile))
    /\ rv_pc' = "validated"
    /\ UNCHANGED <<rv_validator, rv_elem, notRv>>

RvNext == RvValidate \/ RvValidateCaseInsensitive

SpecRegexValidator == RvInit /\ [][RvNext]_vars

\* The stripped non-empty text values of the element, in order.
RvTextValues ==
    SelectSeq([i \in 1..Len(textify_dicom_value(Val(rv_elem))) |->
                    Strip(textify_dicom_value(Val(rv_elem))[i])],
              LAMBDA v : v # <<>>)
RvFindings == Val(rv_outcome).findings
RvValuesFound == [i \in 1..Len(RvFindings) |-> RvFindings[i].value]
RvRan(validator) == rv_pc = "validated" /\ rv_validator = validator

\* C11: RegexValidator.validate returns one finding 'tag missing' when the
\* element is absent, one finding 'value missing' when it is present and
\* every text value is empty or whitespace, and otherwise one Validation
\* finding per non-empty text value the pattern does not match, none for
\* those it matches.
C11_OneFindingPerFailingValue ==
    RvRan("RegexValidator") =>
        /\ Val(rv_outcome).raised = ""
        /\ \A i \in 1..Len(RvFindings) :
                /\ RvFindings[i].cls = "ValidationFinding"
                /\ RvFindings[i].file = RvFile
                /\ RvFindings[i].tag = Some(RegexTag)
        /\ IF rv_elem = None THEN RvValuesFound = <<<<"tag missing">>>>
           ELSE IF RvTextValues = <<>> THEN RvValuesFound = <<<<"value missing">>>>
           ELSE RvValuesFound = SelectSeq(RvTextValues, LAMBDA v : v \notin RegexMatches)

\* An element of several values: one blank, one that matches, two that fail.
C11_Witness ==
    /\ RvRan("RegexValidator")
    /\ rv_elem = Some(ListValue(<<StrValue(<<"XX">>), StrValue(<<" ", "MR", " ">>),
                                  StrValue(<<"mr">>)>>))
    /\ RvValuesFound = <<<<"XX">>, <<"mr">>>>

\* C12: CaseInsensitiveAndWarningRegexValidator.validate tests every text
\* value on its own: a Warning finding for each value that matches only
\* without regard to case, a Validation finding for each value that matches
\* neither way, none dropped.
C12_EveryValueTestedOnItsOwn ==
    (RvRan("CaseInsensitiveAndWarningRegexValidator") /\ rv_elem # None /\ RvTextValues # <<>>) =>
        /\ Val(rv_outcome).raised = ""
        /\ Len(RvFindings) = Len(SelectSeq(RvTextValues, LAMBDA v : v \notin RegexMatches))
        /\ \A i \in 1..Len(RvFindings) :
                LET v == SelectSeq(RvTextValues, LAMBDA w : w \notin RegexMatches)[i]
                IN  IF v \in IgnoreCaseMatches
                    THEN RvFindings[i].cls = "WarningFinding" /\ RvFindings[i].value = Quoted(v)
                    ELSE RvFindings[i].cls = "ValidationFinding" /\ RvFindings[i].value = v

(***************************************************************************)
(* The simple-scoring recognizer on one element                            *)
(***************************************************************************)
\* The simple-scoring recognizer ran on the dataset and returned.
RcRecognized == rc_pc = "recognized" /\ rc_findings # None
\* The Header findings it returned for the tag.
HeaderFindingsOf(tag) ==
    SelectSeq(Val(rc_findings), LAMBDA f : f.cls = "HeaderFinding" /\ f.tag = Some(tag))

\* C13: a strict-risk tag whose value matches a de-identification
\* placeholder (ANON, ANONYMOUS, NA, PATIENT^TEST, ...) gets no Header finding
\* from the simple-scoring recognizer.
C13_PlaceholderNeverFlagged ==
    RcRecognized =>
        \A i \in 1..Len(rc_ds.elems) :
            (/\ rc_ds.elems[i].tag \in _strict_tags
             /\ "NUL" \notin Range(rc_ds.elems[i].value)
             /\ Facts(Strip(rc_ds.elems[i].value)).anonymized)
                => HeaderFindingsOf(rc_ds.elems[i].tag) = <<>>

\* C14: a strict-risk person-name element holding one 'Firstname Lastname'
\* value gets exactly one Header finding, of score at least 0.6, whether
\* the value is of high entropy ('John Smith') or not ('Ann Ann').
C14_OneFindingPerName ==
    RcRecognized =>
        \A i \in 1..Len(rc_ds.elems) :
            (/\ rc_ds.elems[i].tag \in _strict_tags
             /\ rc_ds.elems[i].vr = "PN"
             /\ rc_ds.elems[i].value \in {<<"John Smith">>, <<"Ann Ann">>})
                => /\ Len(HeaderFindingsOf(rc_ds.elems[i].tag)) = 1
                   /\ HeaderFindingsOf(rc_ds.elems[i].tag)[1].score >= 60

\* The formula of the score, in hundredths, with its own reading of a
\* free-text value representation.
ReferenceScore(tag, vr, value, matched_key) ==
    IF Facts(Strip(value)).anonymized THEN 10
    ELSE LET sum ==
                 10
                 + (IF tag \in _strict_tags THEN 60 ELSE IF tag \in _medium_tags THEN 20 ELSE 0)
                 + (IF vr \in {"AE", "AS", "CS", "LO", "LT", "PN", "SH", "ST", "UC", "UT", "UR"}
                    THEN 15 ELSE 0)
                 + (CASE matched_key \in {Some("EMAIL"), Some("PHONE"), Some("SSN")} -> 50
                      [] matched_key \in {Some("MRN_like"), Some("DOB_like")} -> 35
                      [] matched_key = Some("PN_structured") -> 30
                      [] matched_key = Some("NAME_like") ->
                            IF Facts(Strip(value)).jargon THEN 5 ELSE 20
                      [] OTHER -> 0)
                 - (IF vr = "PN" /\ ~Facts(Strip(value)).pn
                        /\ "NAME_like" \notin Facts(Strip(value)).hits
                    THEN 35 ELSE 0)
         IN  IF sum < 0 THEN 0 ELSE IF sum > 100 THEN 100 ELSE sum

\* C15: _score gives 0.1 for a placeholder and otherwise 0.1, plus 0.6
\* (strict tag) or 0.2 (medium tag), plus 0.15 (free-text value
\* representation), plus the bonus of the matched pattern, minus 0.35 (a
\* person-name value that matches neither name grammar), clamped to [0, 1].
C15_ScoreEqualsReference ==
    rc_call # None =>
        Val(rc_call).score = ReferenceScore(Val(rc_call).tag, Val(rc_call).vr,
                                            Val(rc_call).value, Val(rc_call).matched_key)

\* _score was called on a person-name value that is no name, a free-form
\* name with imaging jargon, and a placeholder with a matched key.
C15_Witness ==
    /\ rc_call # None
    /\ Val(rc_call).tag \in _strict_tags
    /\ Val(rc_call).vr = "PN"
    /\ \/ Val(rc_call).value = <<"MR">> /\ Val(rc_call).matched_key = None
            /\ Val(rc_call).score = 50
       \/ Val(rc_call).value = <<"Axial Smith">> /\ Val(rc_call).matched_key = Some("NAME_like")
            /\ Val(rc_call).score = 90

\* C16: when frame extraction or OCR raises for a file, recognize raises
\* nothing and returns one Error finding for the failure together with
\* every Header finding of the file's metadata.
C16_PixelFailureGivesOneErrorFinding ==
    (rc_pc = "recognized" /\ rc_ds.pixels.state \in {"raises", "unreadable"}) =>
        /\ rc_raised = ""
        /\ rc_findings # None
        /\ Len(SelectSeq(Val(rc_findings), LAMBDA f : f.cls = "ErrorFinding")) = 1
        /\ \A i \in 1..Len(_recognize_tags(rc_ds)) :
                _recognize_tags(rc_ds)[i] \in Range(Val(rc_findings))

(***************************************************************************)
(* Discovery of the files of a directory                                   *)
(***************************************************************************)
\* const.py: the file names and the folder names to ignore.
IGNORED_FILES ==
    {".DS_Store", "Thumbs.db", "desktop.ini", "DICOMDIR", "Image.dir", "Series.dir", "_OLD_"}
IGNORED_FOLDERS == {"thumbnails"}

\* The directory given to iterate_paths.
DcRoot == <<"Prostate_MRI">>

\* The files a tree is made of, as paths below the root.
DcCandidates ==
    {<<"notes.txt">>,
     <<".DS_Store">>,
     <<"Images_Site_AB12", "Thumbs.db">>,
     <<"Images_Site_AB12", "1234567", "scan.dcm">>,
     <<"Images_Site_AB12", "1234567", "DICOMDIR">>,
     <<"Images_Site_AB12", "1234567", "thumbnails", "scan.dcm">>,
     <<"thumbnails", "thumb.jpg">>}
DcTrees == SUBSET DcCandidates

IsPrefix(r, p) == Len(r) <= Len(p) /\ SubSeq(p, 1, Len(r)) = r
\* What os.walk reports for the directory r of the tree: its sub-directories
\* and the names of its files.
DirsOf(tree, r) ==
    {SubSeq(p, 1, Len(r) + 1) : p \in {q \in tree : IsPrefix(r, q) /\ Len(q) > Len(r) + 1}}
FilesOf(tree, r) ==
    {p[Len(p)] : p \in {q \in tree : IsPrefix(r, q) /\ Len(q) = Len(r) + 1}}
\* The orders os.listdir may give the entries in.
Orderings(S) ==
    {s \in [1..Cardinality(S) -> S] : \A i, j \in 1..Cardinality(S) : i # j => s[i] # s[j]}

DcInit ==
    /\ FirstIdle
    /\ RnIdle
    /\ AmIdle
    /\ FrIdle
    /\ SbIdle
    /\ TwIdle
    /\ UdIdle
    /\ RvIdle
    /\ PfIdle
    /\ MnIdle
    /\ dc_tree \in DcTrees
    /\ dc_walk = <<<<>>>>
    /\ dc_dir = <<>>
    /\ dc_files = {}
    /\ dc_yielded = <<>>

\* os.walk(root, followlinks=True), top down: the next directory is
\* listed, its sub-directories will be visited before the directories
\* already waiting.
DcWalk ==
    /\ dc_files = {}
    /\ dc_walk # <<>>
    /\ dc_dir' = Head(dc_walk)
    /\ dc_files' = FilesOf(dc_tree, Head(dc_walk))
    /\ \E dirs \in Orderings(DirsOf(dc_tree, Head(dc_walk))) :
            dc_walk' = dirs \o Tail(dc_walk)
    /\ UNCHANGED <<dc_tree, dc_yielded, notDc>>

\* iterate_paths skips a file whose name is in IGNORED_FILES.
DcSkip ==
    /\ \E f \in dc_files :
            /\ f \in IGNORED_FILES
            /\ dc_files' = dc_files \ {f}
    /\ UNCHANGED <<dc_tree, dc_walk, dc_dir, dc_yielded, notDc>>

\* iterate_paths yields os.path.join(r, f) for any other file, and _iterate
\* of _create_non_solr_paths_iterator yields PotentialFile(path).
DcYield ==
    /\ \E f \in dc_files :
            /\ f \notin IGNORED_FILES
            /\ dc_files' = dc_files \ {f}
            /\ dc_yielded' = Append(dc_yielded,
                    PotentialFile(DcRoot \o dc_dir \o <<f>>, None, None))
    /\ UNCHANGED <<dc_tree, dc_walk, dc_dir, notDc>>

DcNext ==
    \/ DcWalk
    \/ DcSkip
    \/ DcYield

SpecDiscovery == DcInit /\ [][DcNext]_vars

\* The walk is over.
DcDone == dc_walk = <<>> /\ dc_files = {}
DcYieldedPaths == {dc_yielded[i].path : i \in 1..Len(dc_yielded)}
UnderIgnoredFolder(p) == \E i \in 1..(Len(p) - 1) : p[i] \in IGNORED_FOLDERS

\* C17: the plain file system discovery yields every file under the root
\* except the files whose name is an ignored file name and the files under a
\* folder whose name is an ignored folder name; no file inside an ignored
\* folder is ever yielded.
C17_DiscoverySkipsIgnoredFilesAndFolders ==
    /\ \A p \in DcYieldedPaths : ~UnderIgnoredFolder(p)
    /\ DcDone =>
            DcYieldedPaths =
                {DcRoot \o p : p \in {q \in dc_tree : /\ q[Len(q)] \notin IGNORED_FILES
                                                      /\ ~UnderIgnoredFolder(q)}}

(***************************************************************************)
(* The constructor of PotentialFile on one path                            *)
(***************************************************************************)
MaxSegments == 3
PfSegments == {"CollX", "Images_Site_AB12", "1234567", "7654321", "sub", "scan.dcm"}
PfExample == <<"CollX", "Images_Site_AB12", "1234567", "sub", "scan.dcm">>
PfPaths ==
    UNION {[1..n -> PfSegments] : n \in 0..MaxSegments}
        \cup {PfExample, <<"CollX", "1234567", "sub", "7654321", "scan.dcm">>}
PfSiteIds == {None, Some(<<>>), Some(<<"Images_Site_ZZ99">>)}
PfEventIds == {None, Some(<<>>), Some(<<"7654321">>)}

PfInit ==
    /\ FirstIdle
    /\ RnIdle
    /\ AmIdle
    /\ FrIdle
    /\ SbIdle
    /\ TwIdle
    /\ UdIdle
    /\ RvIdle
    /\ DcIdle
    /\ MnIdle
    /\ \E path \in PfPaths, site_id \in PfSiteIds, event_id \in PfEventIds :
            pf_call = Some([path |-> path, site_id |-> site_id, event_id |-> event_id])
    /\ pf_file = None

\* PotentialFile(path, site_id, event_id)
PfConstruct ==
    /\ pf_call # None
    /\ pf_file = None
    /\ pf_file' = Some(PotentialFile(Val(pf_call).path, Val(pf_call).site_id,
                                     Val(pf_call).event_id))
    /\ UNCHANGED <<pf_call, notPf>>

PfNext == PfConstruct

SpecPotentialFile == PfInit /\ [][PfNext]_vars

\* The positions of the seven digit segments of a path that have a segment
\* before them and a segment after them.
EventSegments(path) == {e \in 2..(Len(path) - 1) : path[e] \in SevenDigitSegments}

\* C18: PotentialFile(path) takes site_id, event_id and file_name from the
\* segments '{site}/{7-digit event}/{rest}' of the path: the site is the
\* segment right before the (first) seven digit segment and file_name is
\* everything after it; a path with no seven digit segment between a site
\* and a rest gets the unknown site and unknown event markers and the
\* basename of the path; a site_id or event_id that is given and not empty
\* replaces the derived one.
C18_PotentialFileParsesThePath ==
    pf_file # None =>
        LET call == Val(pf_call)
            path == call.path
            file == Val(pf_file)
            es == EventSegments(path)
            e == CHOOSE x \in es : \A y \in es : x <= y
            site == IF es # {} THEN <<path[e - 1]>> ELSE <<"unknown site">>
            event == IF es # {} THEN <<path[e]>> ELSE <<"unknown event">>
        IN  /\ file.path = path
            /\ file.file_name =
                    IF es # {} THEN SubSeq(path, e + 1, Len(path))
                    ELSE IF path = <<>> THEN <<>> ELSE <<path[Len(path)]>>
            /\ file.site_id =
                    IF call.site_id # None /\ Val(call.site_id) # <<>>
                    THEN Val(call.site_id) ELSE site
            /\ file.event_id =
                    IF call.event_id # None /\ Val(call.event_id) # <<>>
                    THEN Val(call.event_id) ELSE event

\* The path CollX/Images_Site_AB12/1234567/sub/scan.dcm was parsed, with no
\* site_id and no event_id given.
C18_Witness ==
    /\ pf_call = Some([path |-> PfExample, site_id |-> None, event_id |-> None])
    /\ pf_file # None
    /\ Val(pf_file).site_id = <<"Images_Site_AB12">>
    /\ Val(pf_file).event_id = <<"1234567">>
    /\ Val(pf_file).file_name = <<"sub", "scan.dcm">>

(***************************************************************************)
(* check_directory and main                                                *)
(***************************************************************************)
MaxReads == 2

\* What pydicom.dcmread does on a file: it returns ("ok"), or raises one of
\* the two errors of an unreadable file, or any other exception.
ReadOutcomes == {"ok", "IOError", "InvalidDicomError", "Exception"}
MnFiles == [name : {"scan.dcm", "DICOMDIR"}, read : ReadOutcomes]
\* What the file system holds at the target: nothing or a plain file, or a
\* directory with the entries os.listdir gives (sites) and the files os.walk
\* finds below it, in its order.
MnTargets ==
    {[kind |-> "missing", sites |-> {}, files |-> <<>>],
     [kind |-> "file", sites |-> {}, files |-> <<>>]}
    \cup {t \in [kind : {"dir"},
                 sites : SUBSET {"Images_Site_AB12", ".DS_Store"},
                 files : UNION {[1..n -> MnFiles] : n \in 0..MaxReads}] :
            t.sites = {} => t.files = <<>>}

\* The loop over os.walk of check_directory: the first file dcmread accepts
\* ends the check; IOError and InvalidDicomError pass to the next file; any
\* other exception becomes a DirectoryError, as does the end of the walk.
RECURSIVE WalkReads(_)
WalkReads(fs) ==
    IF fs = <<>> THEN "DirectoryError"
    ELSE IF Head(fs).read = "ok" THEN "returned"
    ELSE IF Head(fs).read \in {"IOError", "InvalidDicomError"} THEN WalkReads(Tail(fs))
    ELSE "DirectoryError"

\* A check of os.path.isdir alone.
CheckIsDirOnly(target) == IF target.kind # "dir" THEN "DirectoryError" ELSE "returned"

\* check_directory(target): "returned", or the exception it raises.
check_directory(target) ==
    IF target.kind # "dir" THEN "DirectoryError"
    ELSE IF target.sites = {} THEN "DirectoryError"
    ELSE WalkReads(target.files)

\* How many paths iterate_paths yields for the target.
Yielded(target) ==
    Cardinality({i \in 1..Len(target.files) : target.files[i].name \notin IGNORED_FILES})

MnArgs ==
    [url : BOOLEAN,
     findings_db : {None, Some(<<" ">>), Some(<<"findings.db">>)},
     directory : {None, Some(<<"Prostate_MRI">>)},
     concurrency : {1, 2}]

\* db_path = args.findings_db.strip() if args.findings_db else None
DbPathOf(args) ==
    IF TruthyText(args.findings_db) THEN Some(Strip(Val(args.findings_db))) ELSE None

MnInit ==
    /\ FirstIdle
    /\ RnIdle
    /\ AmIdle
    /\ FrIdle
    /\ SbIdle
    /\ TwIdle
    /\ UdIdle
    /\ RvIdle
    /\ DcIdle
    /\ PfIdle
    /\ mn_args \in MnArgs
    /\ mn_target \in MnTargets
    /\ mn_args.directory = None => mn_target.kind = "missing"
    /\ mn_pc = "start"
    /\ mn_checked = ""
    /\ mn_exit = ""
    /\ mn_scanned = 0
    /\ mn_store = FALSE
    /\ mn_report = FALSE

MnEnd(exception) ==
    /\ mn_exit' = exception
    /\ mn_pc' = "exit"

\* main up to the branch on db_path: the arguments are parsed, the output
\* directory is made and the file generator created.  With a URL,
\* _create_solr_paths_iterator at once takes os.path.basename(directory),
\* walks the directory and asks Solr about the paths it found, which may
\* fail.  Then: a findings database given goes to the report, no directory
\* is sys.exit(1), anything else goes on to check_directory.
MnStart ==
    /\ mn_pc = "start"
    /\ \E solr \in {"", "TypeError", "SolrError"} :
            /\ solr = "TypeError" <=> (mn_args.url /\ mn_args.directory = None)
            /\ solr = "SolrError" => (mn_args.url /\ Yielded(mn_target) > 0)
            /\ IF solr # "" THEN MnEnd(solr)
               ELSE IF TruthyText(DbPathOf(mn_args))
                    THEN mn_pc' = "report" /\ UNCHANGED mn_exit
               ELSE IF ~TruthyText(mn_args.directory) THEN MnEnd("SystemExit(1)")
               ELSE mn_pc' = "check" /\ UNCHANGED mn_exit
    /\ UNCHANGED <<mn_args, mn_target, mn_checked, mn_scanned, mn_store, mn_report, notMn>>

\* check_directory(args.directory): main has no except clause for the
\* DirectoryError.
MnCheckDirectory ==
    /\ mn_pc = "check"
    /\ mn_checked' = check_directory(mn_target)
    /\ IF mn_checked' = "DirectoryError"
       THEN MnEnd("DirectoryError")
       ELSE mn_pc' = "scan" /\ UNCHANGED mn_exit
    /\ UNCHANGED <<mn_args, mn_target, mn_scanned, mn_store, mn_report, notMn>>

\* The scan: validate_single, or validate_pool with its findings database,
\* calls _scan_one on every file of the generator (with a URL, the files
\* Solr knows).  validate_pool may raise; Report(findings=[]) raises
\* ValueError.
MnScan ==
    /\ mn_pc = "scan"
    /\ \E n \in 0..Yielded(mn_target), found \in BOOLEAN, raised \in BOOLEAN :
            /\ ~mn_args.url => n = Yielded(mn_target)
            /\ n = 0 => ~found
            /\ raised => mn_args.concurrency # 1
            /\ mn_scanned' = n
            /\ mn_store' = (mn_args.concurrency # 1)
            /\ IF raised THEN MnEnd("OperationalError")
               ELSE IF mn_args.concurrency = 1 /\ ~found THEN MnEnd("ValueError")
               ELSE mn_pc' = "report" /\ UNCHANGED mn_exit
    /\ UNCHANGED <<mn_args, mn_target, mn_checked, mn_report, notMn>>

\* report.generate_report(output_directory): generate_report takes no
\* argument but self, the call raises TypeError.
MnReport ==
    /\ mn_pc = "report"
    /\ mn_report' = TRUE
    /\ MnEnd("TypeError")
    /\ UNCHANGED <<mn_args, mn_target, mn_checked, mn_scanned, mn_store, notMn>>

MnNext ==
    \/ MnStart
    \/ MnCheckDirectory
    \/ MnScan
    \/ MnReport

SpecMain == MnInit /\ [][MnNext]_vars

\* The target is no directory, or is empty, or no file below it is one
\* dcmread accepts.
BadTarget ==
    \/ mn_target.kind # "dir"
    \/ mn_target.sites = {}
    \/ \A i \in 1..Len(mn_target.files) : mn_target.files[i].read # "ok"

\* C20: when the target is not a directory, is empty or holds no file that
\* can be parsed, check_directory raises DirectoryError, and a main that
\* was asked to scan (no findings database given) ends with an exception
\* before any file is scanned: no _scan_one call, no findings database, no
\* report.
C20_BadTargetAbortsBeforeTheScan ==
    BadTarget =>
        /\ check_directory(mn_target) = "DirectoryError"
        /\ mn_checked \in {"", "DirectoryError"}
        /\ mn_pc # "scan"
        /\ mn_scanned = 0
        /\ ~mn_store
        /\ ~TruthyText(DbPathOf(mn_args)) =>
                /\ mn_pc # "report"
                /\ ~mn_report
                /\ mn_pc = "exit" => mn_exit # ""
                /\ (mn_pc = "exit" /\ ~mn_args.url) =>
                        mn_exit \in {"DirectoryError", "SystemExit(1)"}

\* main was asked to scan with two workers a directory whose two files are
\* both unreadable; check_directory raised DirectoryError and main ended with
\* it.
C20_Witness ==
    /\ mn_pc = "exit"
    /\ mn_exit = "DirectoryError"
    /\ mn_checked = "DirectoryError"
    /\ mn_args.concurrency = 2
    /\ mn_target.kind = "dir"
    /\ mn_target.sites # {}
    /\ Len(mn_target.files) = 2
    /\ \A i \in 1..2 : mn_target.files[i].read \in {"IOError", "InvalidDicomError"}

(***************************************************************************)
(* DICOMUIDValidator on one text value                                     *)
(***************************************************************************)
\* Texts are taken character by character here.
MaxChars == 4
UIDMaxLength == 64

UdAlphabet == {"1", "2", ".", "a", " ", "\n"}
UdWhitespace == {" ", "\n"}
\* "1" followed by n times ".1": 2n + 1 characters.
OddUID(n) == [i \in 1..(2 * n + 1) |-> IF i % 2 = 1 THEN "1" ELSE "."]
\* "11" followed by n times ".1": 2n + 2 characters.
EvenUID(n) == <<"1">> \o OddUID(n)
UdExamples ==
    {<<"1", ".", "2", ".", "8", "4", "0", ".", "1", "0", "0", "0", "8", ".", "1", ".", "1">>,
     <<"1", ".", "2", ".", ".", "3">>,
     <<".", "1", ".", "2", ".", "3">>,
     OddUID(31), EvenUID(31), OddUID(32), EvenUID(32),
     EvenUID(31) \o <<"\n">>, <<" ">> \o OddUID(32) \o <<" ">>,
     [i \in 1..65 |-> "1"], [i \in 1..64 |-> "1"]}
UdValues == UNION {[1..n -> UdAlphabet] : n \in 0..MaxChars} \cup UdExamples

\* str.strip(): what lies between the first and the last character that is
\* no whitespace.
UdStrip(s) ==
    LET kept == {i \in 1..Len(s) : s[i] \notin UdWhitespace}
    IN  IF kept = {} THEN <<>>
        ELSE SubSeq(s, CHOOSE i \in kept : \A j \in kept : i <= j,
                       CHOOSE i \in kept : \A j \in kept : i >= j)

\* Where $ matches: at the end of the text and before a last newline.
RegexEnds(s) == {Len(s)} \cup (IF s # <<>> /\ s[Len(s)] = "\n" THEN {Len(s) - 1} ELSE {})

\* A pattern without the lookahead.
NoLookahead(s) == TRUE
\* (?=.{1,64}$): 1 to 64 characters other than newline, then $.
Lookahead(s) ==
    \E n \in 1..UIDMaxLength :
        /\ n \in RegexEnds(s)
        /\ \A i \in 1..n : s[i] # "\n"

\* [0-9]+\.[0-9]+(\.[0-9]+)* read one character at a time.
UIDStep(q, c) ==
    CASE q = "start" /\ IsDigit(c) -> "root"
      [] q = "root" /\ IsDigit(c) -> "root"
      [] q = "root" /\ c = "." -> "dot"
      [] q = "dot" /\ IsDigit(c) -> "component"
      [] q = "component" /\ IsDigit(c) -> "component"
      [] q = "component" /\ c = "." -> "dot"
      [] OTHER -> "fail"
\* Where the reading that stood at q stands after s[lo..hi]; the text is
\* read left to right, in two halves.
RECURSIVE UIDRead(_, _, _, _)
UIDRead(q, s, lo, hi) ==
    IF lo > hi THEN q
    ELSE IF lo = hi THEN UIDStep(q, s[lo])
    ELSE \* A set of one element binds the reading after the first half.
         CHOOSE r \in {UIDRead(half, s, (lo + hi) \div 2 + 1, hi) :
                        half \in {UIDRead(q, s, lo, (lo + hi) \div 2)}} : TRUE
\* Where the reading stands after the whole of s.
UIDRun(s) == UIDRead("start", s, 1, Len(s))

\* DICOMUIDValidator.regex.match(s) is not None
DICOMUID_match(s) ==
    /\ Lookahead(s)
    /\ \E e \in RegexEnds(s) : UIDRun(SubSeq(s, 1, e)) = "component"

UdInit ==
    /\ FirstIdle
    /\ RnIdle
    /\ AmIdle
    /\ FrIdle
    /\ SbIdle
    /\ TwIdle
    /\ RvIdle
    /\ DcIdle
    /\ PfIdle
    /\ MnIdle
    /\ ud_value \in UdValues
    /\ ud_tested = None
    /\ ud_outcome = ""

\* The loop of RegexValidator.validate on a value that is empty once
\* stripped: continue.
UdSkip ==
    /\ ud_outcome = ""
    /\ UdStrip(ud_value) = <<>>
    /\ ud_outcome' = "skipped"
    /\ UNCHANGED <<ud_value, ud_tested, notUd>>

\* The loop on any other value: the stripped value goes to _match_pattern;
\* no match is a finding.
UdMatch ==
    /\ ud_outcome = ""
    /\ UdStrip(ud_value) # <<>>
    /\ ud_tested' = Some(UdStrip(ud_value))
    /\ ud_outcome' = IF DICOMUID_match(UdStrip(ud_value)) THEN "accepted" ELSE "finding"
    /\ UNCHANGED <<ud_value, notUd>>

UdNext ==
    \/ UdSkip
    \/ UdMatch

SpecUID == UdInit /\ [][UdNext]_vars

\* A text of digits and dots, of 1 to 64 characters, that neither starts
\* nor ends with a dot and has no two dots in a row.
DigitsAndDots(s) ==
    /\ \A i \in 1..Len(s) : IsDigit(s[i]) \/ s[i] = "."
    /\ Len(s) >= 1
    /\ Len(s) <= 64
    /\ s[1] # "."
    /\ s[Len(s)] # "."
    /\ \A i \in 1..(Len(s) - 1) : ~(s[i] = "." /\ s[i + 1] = ".")

\* C21: DICOMUIDValidator accepts exactly the texts made only of digits and
\* dots, 1 to 64 characters long, with no leading dot, no trailing dot and
\* no empty component between dots.
C21_AcceptsExactlyDigitsAndDots ==
    ud_tested # None => (ud_outcome = "accepted" <=> DigitsAndDots(Val(ud_tested)))

\* C21 as amended: DICOMUIDValidator accepts exactly the texts of at least
\* two components, that is the texts made only of digits and dots, with at
\* least one dot, at most 64 characters long, with no leading dot, no
\* trailing dot and no empty component between dots.
C21_AcceptsExactlyTwoOrMoreComponents ==
    ud_tested # None =>
        (ud_outcome = "accepted"
            <=> /\ DigitsAndDots(Val(ud_tested))
                /\ \E i \in 1..Len(Val(ud_tested)) : Val(ud_tested)[i] = ".")

\* A text of 64 characters was accepted.
C21_Witness ==
    /\ ud_tested = Some(EvenUID(31))
    /\ ud_outcome = "accepted"

(***************************************************************************)
(* The tag walker over a dataset with sequences                            *)
(***************************************************************************)
MaxDepth == 2
MaxItems == 2

TagReferencedStudySequence == <<8, 4368>>
\* elem.keyword or elem.name
ElementName(tag) ==
    IF tag = TagReferencedStudySequence THEN <<"ReferencedStudySequence">>
    ELSE IF keyword_for_tag(tag) # <<>> THEN keyword_for_tag(tag)
    ELSE <<"Private tag data">>

\* A dataset holds at most one element per tag, in the order of the tags:
\* Modality, the sequence, PatientName.  The items of a sequence are datasets.
RECURSIVE TwDatasets(_, _)
TwDatasets(depth, items) ==
    LET sequences ==
            IF depth = 0 THEN {}
            ELSE {<<Element(TagReferencedStudySequence, "SQ", value)>> :
                    value \in UNION {[1..n -> TwDatasets(depth - 1, items)] : n \in 0..items}}
    IN  {modality \o sequence \o name :
            modality \in {<<>>, <<Element(<<8, 96>>, "CS", <<"MR">>)>>},
            sequence \in {<<>>} \cup sequences,
            name \in {<<>>, <<Element(<<16, 16>>, "PN", <<"John Smith">>)>>}}

RECURSIVE iterall(_)
RECURSIVE IterallItems(_)
\* Dataset.iterall() of pydicom: every element of the dataset, each sequence
\* element followed by the elements of its items, as if the dataset were
\* flattened.
iterall(ds) ==
    IF ds = <<>> THEN <<>>
    ELSE <<Head(ds)>>
            \o (IF Head(ds).vr = "SQ" THEN IterallItems(Head(ds).value) ELSE <<>>)
            \o iterall(Tail(ds))
IterallItems(items) ==
    IF items = <<>> THEN <<>> ELSE iterall(Head(items)) \o IterallItems(Tail(items))

RECURSIVE WalkElements(_, _)
RECURSIVE WalkItems(_, _, _)
\* The loop of _iter_over_dicom_elements over the elements elems, with the
\* tuples (path, value, VR, tag) it yields, in order.
WalkElements(elems, path_prefix) ==
    IF elems = <<>> THEN <<>>
    ELSE LET elem == Head(elems)
             name == ElementName(elem.tag)
             path == IF path_prefix # <<>> THEN path_prefix \o <<".">> \o name ELSE name
         IN  (IF elem.vr = "SQ"
              THEN WalkItems(elem.value, path, 0)
              ELSE <<<<path, elem.value, elem.vr, elem.tag>>>>)
             \o WalkElements(Tail(elems), path_prefix)
\* for idx, item in enumerate(elem.value or []): the walk of each item under
\* the prefix f'{path}[{idx}]'.
WalkItems(items, path, idx) ==
    IF items = <<>> THEN <<>>
    ELSE WalkElements(iterall(Head(items)), path \o <<"[">> \o IntText(idx) \o <<"]">>)
            \o WalkItems(Tail(items), path, idx + 1)

\* _iter_over_dicom_elements(ds), its generator run to the end.
_iter_over_dicom_elements(ds) == WalkElements(iterall(ds), <<>>)

TwInit ==
    /\ FirstIdle
    /\ RnIdle
    /\ AmIdle
    /\ FrIdle
    /\ SbIdle
    /\ RvIdle
    /\ DcIdle
    /\ PfIdle
    /\ MnIdle
    /\ UdIdle
    /\ tw_ds \in TwDatasets(MaxDepth, 1) \cup TwDatasets(1, MaxItems)
    /\ tw_first = None
    /\ tw_second = None

\* _iter_over_dicom_elements(ds) is run to its end.
TwWalk ==
    /\ tw_first = None
    /\ tw_first' = Some(_iter_over_dicom_elements(tw_ds))
    /\ UNCHANGED <<tw_ds, tw_second, notTw>>

\* It is run again over the same dataset.
TwWalkAgain ==
    /\ tw_first # None
    /\ tw_second = None
    /\ tw_second' = Some(_iter_over_dicom_elements(tw_ds))
    /\ UNCHANGED <<tw_ds, tw_first, notTw>>

TwNext ==
    \/ TwWalk
    \/ TwWalkAgain

SpecWalker == TwInit /\ [][TwNext]_vars

RECURSIVE EachOnce(_, _)
RECURSIVE EachOnceItems(_, _, _)
\* Every element of the dataset that is no sequence, once, in the order of
\* the dataset, the elements of the items of a sequence in its place; the
\* path of a nested element names each sequence above it with the index of
\* the item.
EachOnce(ds, path_prefix) ==
    IF ds = <<>> THEN <<>>
    ELSE LET elem == Head(ds)
             name == ElementName(elem.tag)
             path == IF path_prefix # <<>> THEN path_prefix \o <<".">> \o name ELSE name
         IN  (IF elem.vr = "SQ"
              THEN EachOnceItems(elem.value, path, 0)
              ELSE <<<<path, elem.value, elem.vr, elem.tag>>>>)
             \o EachOnce(Tail(ds), path_prefix)
EachOnceItems(items, path, idx) ==
    IF items = <<>> THEN <<>>
    ELSE EachOnce(Head(items), path \o <<"[">> \o IntText(idx) \o <<"]">>)
            \o EachOnceItems(Tail(items), path, idx + 1)

\* C22: over a dataset with nested sequences the tag walker yields every
\* element that is no sequence exactly once, a nested element with a path
\* that carries an array index per level of nesting, and a second run over
\* the same dataset yields the same tuples in the same order.
C22_WalkerYieldsEachElementOnce ==
    /\ tw_first # None =>
            /\ Len(Val(tw_first)) = Len(EachOnce(tw_ds, <<>>))
            /\ Range(Val(tw_first)) = Range(EachOnce(tw_ds, <<>>))
    /\ tw_second # None => tw_second = tw_first


(***************************************************************************)
(* SpacingBetweenSlicesValidator in one worker process                     *)
(***************************************************************************)
MaxCalls == 2

SbNames == {"a.dcm", "b.dcm", "c.dcm"}
SbFolders == {"X", "Y"}
\* A file of the disk: its folder, whether dcmread reads it, and the
\* Modality and SeriesInstanceUID of a readable one.
SbFile(folder, dicom, modality_, series) ==
    [folder |-> folder, dicom |-> dicom, Modality |-> modality_, SeriesInstanceUID |-> series]
SbFileContents ==
    {SbFile(folder, TRUE, m, s) :
        folder \in SbFolders, m \in {"MR", "CT"}, s \in {None, Some("1.2.3")}}
    \cup {SbFile(folder, FALSE, "", None) : folder \in SbFolders}

\* What validate is given: the PotentialFile the scan passes to every
\* validator, or the pydicom dataset read from the file, which is what the
\* signature of validate names.
SbArgumentKinds == {"PotentialFile", "Dataset"}

\* modality(ds): the Modality attribute of the argument; a PotentialFile has
\* none, whatever the file holds.
modality(file, argument) ==
    IF argument = "PotentialFile" THEN "UNKNOWN"
    ELSE IF file.Modality = "" THEN "UNKNOWN"
    ELSE file.Modality

\* The loop over os.listdir(directory): another file of the folder that
\* dcmread reads and that has the same SeriesInstanceUID.
SiblingOfSeries(disk, name) ==
    \E other \in DOMAIN disk :
        /\ other # name
        /\ disk[other].folder = disk[name].folder
        /\ disk[other].dicom
        /\ disk[other].SeriesInstanceUID = disk[name].SeriesInstanceUID

\* current_series_uid in self.series_instance_uids
Memoized(uid, memo) == uid # None /\ uid[1] \in memo

\* _has_multiple_slices_in_series(ds) with the memoized set as it is: the
\* answer and the set afterwards.
_has_multiple_slices_in_series(disk, name, memo) ==
    LET current_series_uid == disk[name].SeriesInstanceUID
    IN  IF Memoized(current_series_uid, memo) THEN [answer |-> TRUE, memo |-> memo]
        ELSE IF current_series_uid = None THEN [answer |-> FALSE, memo |-> memo]
        ELSE IF SiblingOfSeries(disk, name)
             THEN [answer |-> TRUE, memo |-> memo \cup {current_series_uid[1]}]
        ELSE [answer |-> FALSE, memo |-> memo]

\* SpacingBetweenSlicesValidator.validate: nothing unless the modality is MR
\* and the series has several slices; then RegexValidator.validate is called
\* with the same argument and asks it for dcmread, which a dataset does not
\* have.
SpacingBetweenSlices_validate(disk, name, argument, memo) ==
    IF modality(disk[name], argument) # "MR"
    THEN [outcome |-> Returned(<<>>), memo |-> memo]
    ELSE LET multiple == _has_multiple_slices_in_series(disk, name, memo)
         IN  IF multiple.answer
             THEN [outcome |-> Raised("AttributeError"), memo |-> multiple.memo]
             ELSE [outcome |-> Returned(<<>>), memo |-> multiple.memo]

SbInit ==
    /\ FirstIdle
    /\ RnIdle
    /\ AmIdle
    /\ FrIdle
    /\ RvIdle
    /\ DcIdle
    /\ PfIdle
    /\ MnIdle
    /\ UdIdle
    /\ TwIdle
    /\ sb_disk \in [SbNames -> SbFileContents]
    /\ sb_memo = {}
    /\ sb_calls = 0
    /\ sb_last = <<>>

\* The process validates one more file.
SbValidate ==
    /\ sb_calls < MaxCalls
    /\ \E name \in SbNames, argument \in SbArgumentKinds :
            /\ argument = "Dataset" => sb_disk[name].dicom
            /\ \E result \in {SpacingBetweenSlices_validate(sb_disk, name, argument, sb_memo)} :
                    /\ sb_memo' = result.memo
                    /\ sb_last' = <<[name |-> name, argument |-> argument,
                                     outcome |-> result.outcome]>>
    /\ sb_calls' = sb_calls + 1
    /\ UNCHANGED <<sb_disk, notSb>>

SbNext == SbValidate

SpecSpacing == SbInit /\ [][SbNext]_vars

MaxFrameCount == 12

max_frames == 4
FewFrames == 8

\* A pixel array: its number of dimensions, shape[0], whether shape[-1] is 3
\* or 4 (colour channels), the one frame along the first axis that shows
\* an e-mail address, and the frames Image.convert raises for.
PixelArray(ndim, shape0, channels, text_at, unconvertible) ==
    [ndim |-> ndim, shape0 |-> shape0, channels |-> channels, text_at |-> text_at,
     unconvertible |-> unconvertible]
FrArrays ==
    {PixelArray(3, n, FALSE, t, u) : n \in 1..MaxFrameCount, t \in 0..(MaxFrameCount - 1),
                                      u \in {{}, {0}}}
    \cup {PixelArray(3, n, TRUE, 0, {}) : n \in 1..MaxFrameCount}
    \cup {PixelArray(2, n, FALSE, 0, {}) : n \in 1..MaxFrameCount}

\* Image.fromarray(arr[i]) and Image.fromarray(arr)
FrameOf(i) == [whole |-> FALSE, index |-> i]
WholeArray == [whole |-> TRUE, index |-> 0]

\* list(range(0, n, step))[:max_frames] with step = max(1, n // max_frames)
frame_indexes(n) ==
    LET step == Max2(1, n \div max_frames)
    IN  [k \in 1..Min2(max_frames, (n + step - 1) \div step) |-> (k - 1) * step]

\* _extract_frames(ds): the frames taken from the array, then those convert
\* does not raise for, then the first max_frames of them.
_extract_frames(arr) ==
    LET frames ==
            IF arr.ndim = 3
            THEN IF arr.shape0 > FewFrames /\ arr.shape0 >= max_frames
                 THEN IF arr.channels THEN <<WholeArray>>
                      ELSE [k \in 1..Len(frame_indexes(arr.shape0)) |->
                                FrameOf(frame_indexes(arr.shape0)[k])]
                 ELSE IF arr.channels THEN <<WholeArray>>
                      ELSE [k \in 1..Min2(max_frames, arr.shape0) |-> FrameOf(k - 1)]
            ELSE <<WholeArray>>
        normalized == SelectSeq(frames, LAMBDA f : f.whole \/ f.index \notin arr.unconvertible)
    IN  SubSeq(normalized, 1, Min2(max_frames, Len(normalized)))

\* What OCR reads off a frame.
FrameText(arr, frame) ==
    IF frame.whole \/ frame.index = arr.text_at THEN <<"jdoe@example.org">> ELSE <<>>

FrInit ==
    /\ FirstIdle
    /\ RnIdle
    /\ AmIdle
    /\ RvIdle
    /\ DcIdle
    /\ PfIdle
    /\ MnIdle
    /\ UdIdle
    /\ TwIdle
    /\ SbIdle
    /\ fr_arr \in {a \in FrArrays : a.text_at < a.shape0}
    /\ fr_frames = None
    /\ fr_findings = None

\* _recognize_pixels(ds): the frames are extracted and each is read by OCR.
FrRecognizePixels ==
    /\ fr_findings = None
    /\ \E frames \in {_extract_frames(fr_arr)} :
            /\ fr_frames' = Some(frames)
            /\ fr_findings' = Some(_recognize_pixels(
                    [filename |-> RcFilename, elems |-> <<>>,
                     pixels |-> [state |-> "frames",
                                 texts |-> [k \in 1..Len(frames) |->
                                                FrameText(fr_arr, frames[k])]]]).findings)
    /\ UNCHANGED <<fr_arr, notFr>>

FrNext == FrRecognizePixels

SpecFrames == FrInit /\ [][FrNext]_vars

\* C28: of a pixel array with several frames at most 4 frames are read by
\* OCR, and the index of an Image finding is the index of its frame along
\* the frame axis of the array, not its place among the sampled frames.
C28_ImageIndexIsTheSourceFrame ==
    (fr_findings # None /\ fr_arr.ndim = 3 /\ ~fr_arr.channels) =>
        /\ Len(fr_frames[1]) <= max_frames
        /\ \A i \in 1..Len(fr_findings[1]) :
                fr_findings[1][i].cls = "ImageFinding" =>
                    fr_findings[1][i].index = fr_arr.text_at


(***************************************************************************)
(* AcquisitionMatrixValidator on one file                                  *)
(***************************************************************************)
TagAcquisitionMatrix == <<24, 128>>
AcquisitionMatrixDescription == <<"AcquisitionMatrix must be four non-negative integers">>
\* Of the texts of the model, those the regex of the validator matches.
AcquisitionMatrixMatches == {<<"[256, 0, 0, 256]">>}

AmTexts == {<<>>, <<"[256, 0, 0, 256]">>, <<" ", "[256, 0, 0, 256]", " ">>, <<"[256, 0]">>}
\* A file: its Modality ("" for none), the value of (0018,1310) and the text
\* of (0018,0080), None where the element is absent.
AmFiles ==
    [Modality : {"MR", "CT", ""},
     companion : {None, Some(<<>>), Some(<<"0", "256", "256", "0">>)},
     matrix : {None} \cup {Some(t) : t \in AmTexts}]
AmFile == PotentialFile(<<"CollX", "SiteA", "1234567", "a.dcm">>, None, None)

\* RegexValidator.validate with the tag, the pattern and the description of
\* AcquisitionMatrixValidator, on a file descriptor whose dataset holds
\* the element elem.
AcquisitionMatrixRule(elem, potential_file) ==
    IF elem = None
    THEN Returned(<<ValidationFinding(potential_file, <<"tag missing">>, DefaultScore,
                        Some(TagAcquisitionMatrix),
                        Some(<<"Required tag not found in DICOM dataset">>))>>)
    ELSE IF Strip(Val(elem)) = <<>>
         THEN Returned(<<ValidationFinding(potential_file, <<"value missing">>, DefaultScore,
                             Some(TagAcquisitionMatrix),
                             Some(<<"Tag found but missing a value in DICOM dataset">>))>>)
         ELSE IF Strip(Val(elem)) \in AcquisitionMatrixMatches THEN Returned(<<>>)
         ELSE Returned(<<ValidationFinding(potential_file, Strip(Val(elem)), DefaultScore,
                             Some(TagAcquisitionMatrix),
                             Some(<<"Value for tag does not match expected pattern: ">>
                                     \o AcquisitionMatrixDescription))>>)

\* elem is not None and elem.value, for elem = ds.get_item((0x0018, 0x1310))
CompanionHasValue(file) == file.companion # None /\ Val(file.companion) # <<>>

\* AcquisitionMatrixValidator.validate: nothing unless modality() is MR; with
\* the companion element, RegexValidator.validate is called with the same
\* argument and asks it for dcmread, which a dataset does not have.
AcquisitionMatrix_validate(file, argument) ==
    IF modality(file, argument) # "MR" THEN Returned(<<>>)
    ELSE IF CompanionHasValue(file) THEN Raised("AttributeError")
    ELSE Returned(<<>>)

AmInit ==
    /\ FirstIdle
    /\ RnIdle
    /\ RvIdle
    /\ DcIdle
    /\ PfIdle
    /\ MnIdle
    /\ UdIdle
    /\ TwIdle
    /\ SbIdle
    /\ FrIdle
    /\ am_file \in AmFiles
    /\ am_argument = ""
    /\ am_outcome = None

\* _scan_one calls validator.validate(potential_file); a caller that follows
\* the signature passes the dataset.
AmValidate ==
    /\ am_outcome = None
    /\ \E argument \in SbArgumentKinds :
            /\ am_argument' = argument
            /\ am_outcome' = Some(AcquisitionMatrix_validate(am_file, argument))
    /\ UNCHANGED <<am_file, notAm>>

AmNext == AmValidate

SpecAcquisitionMatrix == AmInit /\ [][AmNext]_vars

\* C29: called by the scan with a file descriptor, AcquisitionMatrixValidator
\* gives for an MR file that has (0018,1310) with a value exactly what the
\* generic rule gives for (0018,0080), and for every other file no finding.
C29_AcquisitionMatrixOnlyWithCompanion ==
    (am_outcome # None /\ am_argument = "PotentialFile") =>
        Val(am_outcome) =
            IF am_file.Modality = "MR" /\ CompanionHasValue(am_file)
            THEN AcquisitionMatrixRule(am_file.matrix, AmFile)
            ELSE Returned(<<>>)


(***************************************************************************)
(* The construction of a Report                                            *)
(***************************************************************************)
\* bool(findings) for an Optional list: a list that is given and not empty.
TruthyList(findings) == findings # None /\ Val(findings) # <<>>

\* Report.__init__(findings, score, db_path): "" when the report is
\* constructed, or the message of the ValueError raised.
Report_init(findings, db_path) ==
    IF TruthyText(db_path) /\ TruthyList(findings)
    THEN "Cannot specify both findings list and database path"
    ELSE IF ~TruthyText(db_path) /\ ~TruthyList(findings)
    THEN "Must specify either findings list or database path"
    ELSE "constructed"

RnInit ==
    /\ FirstIdle
    /\ RvIdle
    /\ DcIdle
    /\ PfIdle
    /\ MnIdle
    /\ UdIdle
    /\ TwIdle
    /\ SbIdle
    /\ FrIdle
    /\ AmIdle
    /\ rn_findings \in {None, Some(<<>>)} \cup {Some(l) : l \in RpLists}
    /\ rn_db_path \in {None, Some(<<"findings.db">>)}
    /\ rn_outcome = ""

\* main builds the report: Report(findings=findings, score=args.score) after
\* validate_single, Report(db_path=db_path, score=args.score) otherwise.
RnConstruct ==
    /\ rn_outcome = ""
    /\ rn_outcome' = Report_init(rn_findings, rn_db_path)
    /\ UNCHANGED <<rn_findings, rn_db_path, notRn>>

RnNext == RnConstruct

SpecReportInit == RnInit /\ [][RnNext]_vars

\* C30: the construction of a Report succeeds whenever exactly one of the
\* findings list and the database path is given, an empty findings list
\* (what a single-worker scan without findings returns) included; it raises
\* ValueError only when both or neither are given.
C30_ReportTakesExactlyOneSource ==
    rn_outcome # "" =>
        /\ ((rn_findings # None) # (rn_db_path # None)) => rn_outcome = "constructed"
        /\ rn_outcome # "constructed" => ((rn_findings # None) = (rn_db_path # None))

====
